---- MODULE Spec2Model ----
(***************************************************************************)
(* x402 payment gate: the Express paymentMiddleware and the                *)
(* x402HTTPResourceService it drives (route lookup, payment extraction,    *)
(* requirement matching, verification, settlement).                        *)
(*                                                                         *)
(* Strings that the code inspects character by character (route patterns,  *)
(* request paths) are sequences of one-character strings; "%2F" and "%61"  *)
(* are single elements standing for a percent-escape, "%" for a broken one,*)
(* "%0A" for an escaped line feed,                                         *)
(* and an HTTP verb in a route pattern is one element ("GET", "post").     *)
(* The Accept and User-Agent headers are sequences of tokens.               *)
(***************************************************************************)
EXTENDS Integers, Sequences, FiniteSets, TLC

\* ------------------------------------------------------------------ bounds

\* Longest list of requirements the requirement builder returns.
MaxAccepts == 2

\* ------------------------------------------------------------ small values

None == "none"

Range(s) == {s[i] : i \in DOMAIN s}

\* String.prototype.toUpperCase on the method and verb tokens of the model.
toUpperCase(m) ==
  CASE m = "get" -> "GET"
    [] m = "post" -> "POST"
    [] OTHER -> m

\* Case folding of one character, as the "i" flag of the compiled RegExp does.
FoldCase(c) ==
  CASE c = "A" -> "a"
    [] c = "P" -> "p"
    [] c = "I" -> "i"
    [] c = "B" -> "b"
    [] c = "X" -> "x"
    [] OTHER -> c

\* ----------------------------------------------------------- route compiler

\* pattern.split(/\s+/): the pieces between runs of blanks.
RECURSIVE SplitBlanks(_, _, _)
SplitBlanks(s, cur, acc) ==
  IF s = <<>> THEN Append(acc, cur)
  ELSE IF Head(s) = " "
       THEN IF Len(s) > 1 /\ s[2] = " "
            THEN SplitBlanks(Tail(s), cur, acc)
            ELSE SplitBlanks(Tail(s), <<>>, Append(acc, cur))
       ELSE SplitBlanks(Tail(s), Append(cur, Head(s)), acc)

\* Index of the first "]" of s at or after position i, 0 if there is none.
RECURSIVE IndexOfClose(_, _)
IndexOfClose(s, i) ==
  IF i > Len(s) THEN 0
  ELSE IF s[i] = "]" THEN i
  ELSE IndexOfClose(s, i + 1)

\* The matcher the chain of replaces builds from the path part of a pattern:
\* "*" becomes ".*?", "[name]" becomes "[^/]+", and the characters the first
\* replace escapes are literals, as are those that mean nothing to a RegExp.
\* A "[" that opens no "[name]" is left in the source as it stands: "[]" is
\* a character class that matches nothing, and a "[" with no "]" after it
\* leaves the class open, which the RegExp constructor rejects.
RECURSIVE CompilePath(_)
CompilePath(p) ==
  IF p = <<>> THEN <<>>
  ELSE IF Head(p) = "*"
       THEN <<[kind |-> "star"]>> \o CompilePath(Tail(p))
  ELSE IF Head(p) = "[" /\ IndexOfClose(p, 2) > 2
       THEN <<[kind |-> "param"]>>
              \o CompilePath(SubSeq(p, IndexOfClose(p, 2) + 1, Len(p)))
  ELSE IF Head(p) = "[" /\ IndexOfClose(p, 2) = 2
       THEN <<[kind |-> "empty"]>> \o CompilePath(SubSeq(p, 3, Len(p)))
  ELSE IF Head(p) = "["
       THEN <<[kind |-> "invalid"]>>
  ELSE <<[kind |-> "lit", c |-> Head(p)]>> \o CompilePath(Tail(p))

\* parseRoutePattern: the verb (upper-cased, "*" when the pattern has none)
\* and the anchored, case-insensitive matcher of the path.
parseRoutePattern(pattern) ==
  LET hasBlank == \E i \in DOMAIN pattern : pattern[i] = " "
      parts    == SplitBlanks(pattern, <<>>, <<>>)
      verb     == IF hasBlank /\ Len(parts[1]) = 1 THEN parts[1][1] ELSE "*"
      path     == IF hasBlank THEN parts[2] ELSE pattern
  IN  [verb |-> toUpperCase(verb), regex |-> CompilePath(path)]

\* RegExp.test of an anchored matcher against the whole string s. The dot of
\* ".*?" matches any character but a line terminator; "[^/]+" matches any
\* character but a slash.
RECURSIVE RegexTest(_, _)
RegexTest(re, s) ==
  IF re = <<>> THEN s = <<>>
  ELSE LET t == Head(re) IN
    CASE t.kind = "lit" ->
           /\ s # <<>>
           /\ FoldCase(Head(s)) = FoldCase(t.c)
           /\ RegexTest(Tail(re), Tail(s))
      [] t.kind = "star" ->
           \E k \in 0..Len(s) :
             /\ \A j \in 1..k : s[j] # "\n"
             /\ RegexTest(Tail(re), SubSeq(s, k + 1, Len(s)))
      [] t.kind \in {"empty", "invalid"} -> FALSE
      [] t.kind = "param" ->
           \E k \in 1..Len(s) :
             /\ \A j \in 1..k : s[j] # "/"
             /\ RegexTest(Tail(re), SubSeq(s, k + 1, Len(s)))

\* path.split(/[?#]/)[0]
RECURSIVE BeforeQuery(_)
BeforeQuery(s) ==
  IF s = <<>> \/ Head(s) \in {"?", "#"} THEN <<>>
  ELSE <<Head(s)>> \o BeforeQuery(Tail(s))

\* decodeURIComponent, one escape at a time.
DecodeChar(c) ==
  CASE c = "%2F" -> "/"
    [] c = "%61" -> "a"
    [] c = "%0A" -> "\n"
    [] OTHER -> c

\* The two replaces that turn backslashes into slashes and collapse runs of
\* slashes.
RECURSIVE CollapseSlashes(_)
CollapseSlashes(s) ==
  IF s = <<>> THEN <<>>
  ELSE LET c == IF Head(s) = "\\" THEN "/" ELSE Head(s)
           r == CollapseSlashes(Tail(s))
       IN  IF c = "/" /\ r # <<>> /\ Head(r) = "/" THEN r ELSE <<c>> \o r

\* .replace(/(.+?)\/+$/, "$1"): trailing slashes go, unless nothing precedes.
RECURSIVE StripTrailing(_)
StripTrailing(s) ==
  IF Len(s) >= 2 /\ s[Len(s)] = "/"
  THEN StripTrailing(SubSeq(s, 1, Len(s) - 1))
  ELSE s

\* normalizePath; a malformed escape makes decodeURIComponent throw and the
\* raw path comes back unchanged.
normalizePath(path) ==
  LET pathWithoutQuery == BeforeQuery(path)
      malformed == \E i \in DOMAIN pathWithoutQuery : pathWithoutQuery[i] = "%"
      decodedPath == [i \in DOMAIN pathWithoutQuery |->
                        DecodeChar(pathWithoutQuery[i])]
  IN  IF malformed THEN path
      ELSE StripTrailing(CollapseSlashes(decodedPath))

\* ------------------------------------------------------------ configuration

Slash == "/"

\* The route table handed to paymentMiddleware, in configuration order.
RoutesConfig ==
  << [pattern |-> <<Slash, "a">>,
      config  |-> [id |-> "r1", scheme |-> "exact", network |-> "base-sepolia",
                   customPaywallHtml |-> None]],
     [pattern |-> <<"GET", " ", Slash, "p", Slash, "*">>,
      config  |-> [id |-> "r2", scheme |-> "exact", network |-> "base-sepolia",
                   customPaywallHtml |-> "<custom>"]],
     [pattern |-> <<"post", " ", Slash, "i", Slash, "[", "i", "d", "]">>,
      config  |-> [id |-> "r3", scheme |-> "upto", network |-> "solana:devnet",
                   customPaywallHtml |-> None]] >>

NoRoute == [id |-> None]

\* The routes argument: a table keyed by pattern, or one RouteConfig.
KeyedRoutes(table) == [keyed |-> TRUE, table |-> table, config |-> NoRoute]

SingleRoute(config) == [keyed |-> FALSE, table |-> <<>>, config |-> config]

\* "typeof routes === 'object' && !('scheme' in routes) ? routes
\*  : { '*': routes }"
normalizedRoutes(routes) ==
  IF routes.keyed THEN routes.table
  ELSE <<[pattern |-> <<"*">>, config |-> routes.config]>>

\* The constructor: one compiled route per entry, in order.
CompileRoutes(routes) ==
  [i \in DOMAIN routes |->
     [verb   |-> parseRoutePattern(routes[i].pattern).verb,
      regex  |-> parseRoutePattern(routes[i].pattern).regex,
      config |-> routes[i].config]]

\* compiledRoutes.find(...): index of the first route matching path and verb.
RouteMatches(route, normalizedPath, upperMethod) ==
  /\ RegexTest(route.regex, normalizedPath)
  /\ (route.verb = "*" \/ route.verb = upperMethod)

\* getRouteConfig with the verb test left out of the find predicate.
getRouteConfigAnyVerb(compiled, path, method) ==
  LET normalizedPath == normalizePath(path)
      hits == {i \in DOMAIN compiled :
                 RegexTest(compiled[i].regex, normalizedPath)}
  IN  IF hits = {} THEN NoRoute
      ELSE compiled[CHOOSE i \in hits : \A j \in hits : i <= j].config

\* getRouteConfig taking the last matching route instead of the first.
getRouteConfigLastMatch(compiled, path, method) ==
  LET normalizedPath == normalizePath(path)
      upperMethod    == toUpperCase(method)
      hits == {i \in DOMAIN compiled :
                 RouteMatches(compiled[i], normalizedPath, upperMethod)}
  IN  IF hits = {} THEN NoRoute
      ELSE compiled[CHOOSE i \in hits : \A j \in hits : i >= j].config

\* getRouteConfig: the config of the first matching compiled route.
getRouteConfig(compiled, path, method) ==
  LET normalizedPath == normalizePath(path)
      upperMethod    == toUpperCase(method)
      hits == {i \in DOMAIN compiled :
                 RouteMatches(compiled[i], normalizedPath, upperMethod)}
  IN  IF hits = {} THEN NoRoute
      ELSE compiled[CHOOSE i \in hits : \A j \in hits : i <= j].config

\* ------------------------------------------------------------------ requests

RequestPaths ==
  { <<Slash, "a">>,
    <<Slash, "A", Slash, "?", "x">>,
    <<Slash, "b">>,
    <<Slash, "p", Slash, "x", Slash, "b">>,
    <<Slash, "i", Slash, "x">> }

RequestMethods == {"GET", "post"}

\* PaymentPayload values a client may present.
Payloads ==
  { [x402Version |-> 2, scheme |-> "exact", network |-> "base-sepolia", payload |-> "sigA"],
    [x402Version |-> 2, scheme |-> "exact", network |-> "solana:devnet", payload |-> "sigB"],
    [x402Version |-> 2, scheme |-> "upto",  network |-> "solana:devnet", payload |-> "sigC"] }

NoPayload == [x402Version |-> 0]

\* The payment header as the client encodes it (base64 of the JSON payload).
encodePaymentSignatureHeader(p) == [kind |-> "base64", json |-> p]

AbsentHeader == [kind |-> "absent"]

\* Values of the payment-signature request header: absent, the empty string,
\* text that is not base64, base64 of text that is not a payload, and
\* well-formed payloads.
SignatureHeaders ==
  {AbsentHeader, [kind |-> "empty"], [kind |-> "garbage"], [kind |-> "base64", json |-> NoPayload]}
    \cup {encodePaymentSignatureHeader(p) : p \in Payloads}

\* Values of the legacy x-payment request header.
LegacyHeaders ==
  {AbsentHeader,
   encodePaymentSignatureHeader(CHOOSE p \in Payloads : p.payload = "sigA")}

\* decodePaymentSignatureHeader: the payload, or a DecodeError.
decodePaymentSignatureHeader(h) ==
  IF h.kind = "base64" /\ h.json \in Payloads
  THEN [ok |-> TRUE, value |-> h.json]
  ELSE [ok |-> FALSE, value |-> NoPayload]

\* Requirements the requirement builder can produce (before resourceUrl).
RequirementPool ==
  { [scheme |-> "exact", network |-> "base-sepolia",  amount |-> "100000"],
    [scheme |-> "exact", network |-> "base-sepolia",  amount |-> "50000"],
    [scheme |-> "upto",  network |-> "solana:devnet", amount |-> "100000"] }

\* buildPaymentRequirements(routeConfig): an ordered list of requirements.
BuiltRequirements ==
  UNION {[1..n -> RequirementPool] : n \in 0..MaxAccepts}

\* The loop stamping only the first requirement of the list.
attachResourceUrlFirstOnly(requirements, url) ==
  [i \in DOMAIN requirements |->
     [scheme  |-> requirements[i].scheme,
      network |-> requirements[i].network,
      amount  |-> requirements[i].amount,
      extra   |-> [resourceUrl |-> IF i = 1 THEN url ELSE <<>>]]]

\* requirements.forEach(req => req.extra.resourceUrl = resourceInfo.url)
attachResourceUrl(requirements, url) ==
  [i \in DOMAIN requirements |->
     [scheme  |-> requirements[i].scheme,
      network |-> requirements[i].network,
      amount  |-> requirements[i].amount,
      extra   |-> [resourceUrl |-> url]]]

\* ExpressAdapter.getUrl
getUrl(path) == <<"http://host">> \o path

NoRequirement == [scheme |-> None, network |-> None]

\* findMatchingRequirements: the first entry of accepts with the payload's
\* scheme and network.
findMatchingRequirements(accepts, paymentPayload) ==
  LET hits == {i \in DOMAIN accepts :
                 /\ accepts[i].scheme = paymentPayload.scheme
                 /\ accepts[i].network = paymentPayload.network}
  IN  IF hits = {} THEN NoRequirement
      ELSE accepts[CHOOSE i \in hits : \A j \in hits : i <= j]

\* createPaymentRequiredResponse: the negotiation data of a 402.
createPaymentRequiredResponse(requirements, resourceInfo, error) ==
  [x402Version |-> 2, error |-> error, resource |-> resourceInfo,
   accepts |-> requirements]

encodePaymentRequiredHeader(paymentRequired) ==
  [kind |-> "base64", json |-> paymentRequired]

encodePaymentResponseHeader(settleResponse) ==
  [kind |-> "base64", json |-> settleResponse]

\* ------------------------------------------------- x402HTTPResourceService

Undefined == "<undefined>"

NoHeader == [kind |-> "absent"]

NoBody == [kind |-> "none"]

\* extractPayment without the try / catch around the decoder.
extractPaymentUncaught(signatureHeader) ==
  IF signatureHeader.kind \in {"absent", "empty"}
  THEN [payload |-> NoPayload, warned |-> FALSE, threw |-> FALSE]
  ELSE IF decodePaymentSignatureHeader(signatureHeader).ok
       THEN [payload |-> decodePaymentSignatureHeader(signatureHeader).value,
             warned |-> FALSE, threw |-> FALSE]
       ELSE [payload |-> NoPayload, warned |-> FALSE, threw |-> TRUE]

\* extractPayment: only the payment-signature header is read; a header that
\* fails to decode is logged and the result is null.
extractPayment(signatureHeader) ==
  IF signatureHeader.kind \in {"absent", "empty"}
  THEN [payload |-> NoPayload, warned |-> FALSE, threw |-> FALSE]
  ELSE IF decodePaymentSignatureHeader(signatureHeader).ok
       THEN [payload |-> decodePaymentSignatureHeader(signatureHeader).value,
             warned |-> FALSE, threw |-> FALSE]
       ELSE [payload |-> NoPayload, warned |-> TRUE, threw |-> FALSE]

\* String.prototype.includes on a header value, token by token.
includes(s, token) == \E i \in DOMAIN s : s[i] = token

\* isWebBrowser accepting either sign of a browser alone.
isWebBrowserEither(accept, userAgent) ==
  \/ includes(accept, "text/html")
  \/ includes(userAgent, "Mozilla")

\* isWebBrowser
isWebBrowser(accept, userAgent) ==
  /\ includes(accept, "text/html")
  /\ includes(userAgent, "Mozilla")

\* How the middleware is installed: whether require("@x402/paywall")
\* resolves in the process, and the paywall provider handed to
\* paymentMiddleware (registered on the service at construction).
VARIABLE deployment

\* No provider was handed to paymentMiddleware.
NoProvider == [kind |-> "none"]

\* Handlers an integrator can register with a PaywallBuilder.
PaywallHandlers == {"evmPaywall", "svmPaywall"}

\* Longest list of handlers registered with one builder.
MaxHandlers == 2

HandlerLists == UNION {[1..n -> PaywallHandlers] : n \in 0..MaxHandlers}

\* createPaywall().withNetwork(h1)...build()
PaywallProviders == {[kind |-> "provider", handlers |-> hs] : hs \in HandlerLists}

Deployments ==
  [paywallPackage : BOOLEAN, paywall : {NoProvider} \cup PaywallProviders,
   routes : {KeyedRoutes(RoutesConfig)}]

\* The installation the request specifications run in: no provider, and the
\* optional package absent.
BareDeployment ==
  [paywallPackage |-> FALSE, paywall |-> NoProvider,
   routes |-> KeyedRoutes(RoutesConfig)]

\* generatePaywallHTML: the route's custom page; else the page of
\* getPaywallHtml when the optional package can be required; else the inline
\* page with the serialized PaymentRequired in data-requirements. A
\* registered provider is not consulted.
generatePaywallHTML(paymentRequired, customHtml) ==
  IF customHtml # None
  THEN [kind |-> "html", source |-> "custom", data |-> [html |-> customHtml]]
  ELSE IF deployment.paywallPackage
  THEN [kind |-> "html", source |-> "getPaywallHtml",
        data |-> [paymentRequirements |-> paymentRequired.accepts,
                  currentUrl |-> paymentRequired.resource.url]]
  ELSE [kind |-> "html", source |-> "fallback", data |-> paymentRequired]

\* createHTTPResponse serving the paywall page as an ordinary 200 page.
createHTTPResponsePageOk(paymentRequired, browser, customHtml) ==
  IF browser
  THEN [status |-> 200, contentType |-> "text/html",
        paymentRequired |-> NoHeader,
        body |-> generatePaywallHTML(paymentRequired, customHtml),
        isHtml |-> TRUE]
  ELSE [status |-> 402, contentType |-> "application/json",
        paymentRequired |-> encodePaymentRequiredHeader(paymentRequired),
        body |-> NoBody,
        isHtml |-> FALSE]

\* createHTTPResponse: the instructions for a 402.
createHTTPResponse(paymentRequired, browser, customHtml) ==
  IF browser
  THEN [status |-> 402, contentType |-> "text/html",
        paymentRequired |-> NoHeader,
        body |-> generatePaywallHTML(paymentRequired, customHtml),
        isHtml |-> TRUE]
  ELSE [status |-> 402, contentType |-> "application/json",
        paymentRequired |-> encodePaymentRequiredHeader(paymentRequired),
        body |-> NoBody,
        isHtml |-> FALSE]

NoResult == [type |-> "pending"]

PaymentError(response) == [type |-> "payment-error", response |-> response]

\* The first createPaymentRequiredResponse call with no error argument.
initialErrorOmitted(paymentPayload) == Undefined

\* The error argument of the first createPaymentRequiredResponse call.
initialError(paymentPayload) ==
  IF paymentPayload = NoPayload THEN "Payment required" ELSE Undefined

\* The branch "if (!paymentPayload)" of processHTTPRequest.
noPaymentResult(paymentRequired, browser, customHtml) ==
  PaymentError(createHTTPResponse(paymentRequired, browser, customHtml))

\* The no-match branch answering with the PaymentRequired built first, which
\* carries no error once a payload is present.
noMatchResultReusesFirst(requirements, resourceInfo) ==
  PaymentError(createHTTPResponse(
    createPaymentRequiredResponse(requirements, resourceInfo, Undefined),
    FALSE, None))

\* The branch "if (!matchingRequirements)" of processHTTPRequest.
noMatchResult(requirements, resourceInfo) ==
  PaymentError(createHTTPResponse(
    createPaymentRequiredResponse(requirements, resourceInfo,
                                  "No matching payment requirements"),
    FALSE, None))

\* processHTTPRequest without the "if (!verifyResult.isValid)" branch.
verifyResultOutcomeIgnoresValidity(verifyResult, paymentPayload, matching, requirements, resourceInfo) ==
  [type |-> "payment-verified",
   paymentPayload |-> paymentPayload,
   paymentRequirements |-> matching]

\* The invalid branch answering with a fixed reason instead of invalidReason.
verifyResultOutcomeFixedReason(verifyResult, paymentPayload, matching, requirements, resourceInfo) ==
  IF ~verifyResult.isValid
  THEN PaymentError(createHTTPResponse(
         createPaymentRequiredResponse(requirements, resourceInfo,
                                       "Payment verification failed"),
         FALSE, None))
  ELSE [type |-> "payment-verified",
        paymentPayload |-> paymentPayload,
        paymentRequirements |-> matching]

\* What processHTTPRequest returns once verifyPayment has returned.
verifyResultOutcome(verifyResult, paymentPayload, matching, requirements, resourceInfo) ==
  IF ~verifyResult.isValid
  THEN PaymentError(createHTTPResponse(
         createPaymentRequiredResponse(requirements, resourceInfo,
                                       verifyResult.invalidReason),
         FALSE, None))
  ELSE [type |-> "payment-verified",
        paymentPayload |-> paymentPayload,
        paymentRequirements |-> matching]

\* The catch block answering as for a browser: with the paywall page.
verifyCatchOutcomeAsPage(error, requirements, resourceInfo) ==
  PaymentError(createHTTPResponse(
    createPaymentRequiredResponse(requirements, resourceInfo,
      IF error.isError THEN error.message ELSE "Payment verification failed"),
    TRUE, None))

\* The catch block answering with the fixed message whatever was thrown.
verifyCatchOutcomeHidesReason(error, requirements, resourceInfo) ==
  PaymentError(createHTTPResponse(
    createPaymentRequiredResponse(requirements, resourceInfo,
                                  "Payment verification failed"),
    FALSE, None))

\* The catch block of processHTTPRequest.
verifyCatchOutcome(error, requirements, resourceInfo) ==
  PaymentError(createHTTPResponse(
    createPaymentRequiredResponse(requirements, resourceInfo,
      IF error.isError THEN error.message ELSE "Payment verification failed"),
    FALSE, None))

\* What the verification collaborator may answer.
VerifyOutcomes ==
  { [kind |-> "return", isValid |-> TRUE,  invalidReason |-> Undefined],
    [kind |-> "return", isValid |-> FALSE, invalidReason |-> "expired"],
    [kind |-> "return", isValid |-> FALSE, invalidReason |-> Undefined],
    [kind |-> "throw", isError |-> TRUE,  message |-> "facilitator timeout"],
    [kind |-> "throw", isError |-> FALSE, message |-> Undefined] }

\* What the settlement collaborator may answer.
SettleOutcomes ==
  { [kind |-> "return", success |-> TRUE,  transaction |-> "0xabc"],
    [kind |-> "return", success |-> FALSE, transaction |-> ""],
    [kind |-> "throw",  success |-> FALSE, transaction |-> ""] }

\* The guard of processSettlement with ">" for ">=".
settlementSkippedAbove(responseStatus) == responseStatus > 400

\* The guard of processSettlement: a failed response is not settled.
settlementSkipped(responseStatus) == responseStatus >= 400

\* createSettlementHeaders
createSettlementHeaders(settleResponse) ==
  [kind |-> "headers",
   paymentResponse |-> encodePaymentResponseHeader(settleResponse)]

\* processSettlement with a catch that logs and returns null.
settlementReturnSwallows(outcome) ==
  IF outcome.kind = "throw"
  THEN [kind |-> "null"]
  ELSE createSettlementHeaders(
         [success |-> outcome.success, transaction |-> outcome.transaction])

\* What processSettlement gives its caller once settlePayment has answered.
settlementReturn(outcome) ==
  IF outcome.kind = "throw"
  THEN [kind |-> "throw"]
  ELSE createSettlementHeaders(
         [success |-> outcome.success, transaction |-> outcome.transaction])

\* ------------------------------------------------------- Express response

\* The response object before the handler or the middleware touched it.
FreshResponse ==
  [statusCode |-> 200, headersSent |-> FALSE, finished |-> FALSE,
   contentType |-> None, paymentRequired |-> NoHeader,
   paymentResponse |-> NoHeader,
   endPatched |-> FALSE, endArgs |-> NoBody, replays |-> 0]

NothingDelivered ==
  [kind |-> "none", status |-> 0, contentType |-> None,
   paymentRequired |-> NoHeader, paymentResponse |-> NoHeader,
   body |-> NoBody]

\* Headers and status line go out: what the client sees is fixed from here.
flushHeaders(r, d) ==
  IF r.headersSent THEN [res |-> r, delivered |-> d]
  ELSE [res |-> [r EXCEPT !.headersSent = TRUE],
        delivered |-> [kind |-> "partial", status |-> r.statusCode,
                       contentType |-> r.contentType,
                       paymentRequired |-> r.paymentRequired,
                       paymentResponse |-> r.paymentResponse,
                       body |-> NoBody]]

\* The original res.end(body): the response is completed.
originalEnd(r, d, body) ==
  IF r.finished THEN [res |-> r, delivered |-> d]
  ELSE LET f == flushHeaders(r, d) IN
       [res |-> [f.res EXCEPT !.finished = TRUE],
        delivered |-> [f.delivered EXCEPT !.kind = "response", !.body = body]]

\* res.end with a replacement that passes every call on to the original.
resEndPassesThrough(r, d, body) == originalEnd(r, d, body)

\* res.end as the code finds it: the replacement installed by the middleware
\* only records the arguments.
resEnd(r, d, body) ==
  IF r.endPatched
  THEN [res |-> [r EXCEPT !.endArgs = body], delivered |-> d]
  ELSE originalEnd(r, d, body)

\* "res.end = originalEnd" without the replay of the recorded call.
restoreEndNoReplay(r, d) ==
  [res |-> [r EXCEPT !.endPatched = FALSE], delivered |-> d]

\* "res.end = originalEnd; if (endArgs) originalEnd(...endArgs)"; replays
\* counts the recorded calls handed to the original.
restoreEnd(r, d) ==
  LET r1 == [r EXCEPT !.endPatched = FALSE] IN
  IF r.endArgs # NoBody
  THEN originalEnd([r1 EXCEPT !.replays = @ + 1], d, r.endArgs)
  ELSE [res |-> r1, delivered |-> d]

\* The protected handler answers: status, optionally an early write that
\* flushes the headers, then res.end. Nothing changes a finished response.
HandlerStatuses == {200, 399, 400, 500}

handlerResponds(r, d, status, early) ==
  IF r.finished THEN [res |-> r, delivered |-> d]
  ELSE LET r1 == IF r.headersSent THEN r ELSE [r EXCEPT !.statusCode = status]
           f  == IF early THEN flushHeaders(r1, d)
                 ELSE [res |-> r1, delivered |-> d]
       IN  resEnd(f.res, f.delivered, [kind |-> "handler"])

\* The switch with the payment-error case falling through to next().
middlewareBranchForwardsErrors(type) ==
  CASE type = "no-payment-required" -> "next"
    [] type = "payment-error" -> "next"
    [] type = "payment-verified" -> "wrap"

\* The switch with the unprotected case sharing the payment-verified body.
middlewareBranchWrapsUnprotected(type) ==
  CASE type = "no-payment-required" -> "wrap"
    [] type = "payment-error" -> "respond"
    [] type = "payment-verified" -> "wrap"

\* The switch of the middleware on the result type.
middlewareBranch(type) ==
  CASE type = "no-payment-required" -> "next"
    [] type = "payment-error" -> "respond"
    [] type = "payment-verified" -> "wrap"

\* "if (res.statusCode >= 400)" after next() in the middleware.
skipsSettlement(statusCode) == statusCode >= 400

\* -------------------------------------------------------------------- state

VARIABLES
  compiledRoutes,   \* x402HTTPResourceService.compiledRoutes
  request,          \* the Express request being handled
  pc,               \* where the middleware / the service stands
  routeConfig,      \* processHTTPRequest: the matched route's config
  paymentPayload,   \* processHTTPRequest: the extracted payload
  requirements,     \* processHTTPRequest: built requirements, url attached
  paymentRequired,  \* processHTTPRequest: the PaymentRequired built first
  matching,         \* processHTTPRequest: matchingRequirements
  result,           \* what processHTTPRequest returned
  builderCalls,     \* calls of buildPaymentRequirements
  verifyCalls,      \* arguments of each verifyPayment call
  verifyAnswers,    \* what each verifyPayment call answered
  settleCalls,      \* arguments of each settlePayment call
  settleAnswers,    \* what each settlePayment call answered
  settlementArgs,   \* arguments of the processSettlement call
  settlement,       \* what processSettlement returned to its caller
  nextCalls,        \* calls of next()
  handler,          \* the protected handler: idle, pending, done; its status
  res,              \* the Express response object
  delivered,        \* what has gone out to the client
  warnings,         \* console.warn calls of extractPayment
  fault,            \* an exception that left the middleware
  trace,            \* the order of collaborator calls, handler and
                    \* transport events
  paywallCall,      \* a call of PaywallProvider.generateHtml: its handlers,
                    \* the accepts list, the scan position, the supports
                    \* calls made and the page returned
  heap,             \* the requirement objects buildPaymentRequirements has
                    \* returned, by reference
  inflight,         \* the calls of processHTTPRequest under way together:
                    \* the locals of each
  builder,          \* a PaywallBuilder, the arrays it and its providers
                    \* refer to, the provider built and its last call
  unitCall          \* a direct call of one function: arguments and outcome

vars ==
  << heap, inflight, builder, unitCall, paywallCall, deployment, compiledRoutes, request, pc, routeConfig, paymentPayload, requirements,
     paymentRequired, matching, result, builderCalls, verifyCalls,
     verifyAnswers, settleCalls, settleAnswers, settlementArgs, settlement,
     nextCalls, handler, res, delivered, warnings, fault, trace >>

\* Values of the Accept and the User-Agent request headers.
AcceptHeaders == { <<"text/html", ",", "*/*">>, <<"application/json">> }

UserAgents == { <<"Mozilla", "/5.0">>, <<"curl", "/8">> }

Requests ==
  [path : RequestPaths, method : RequestMethods,
   signature : SignatureHeaders, legacy : LegacyHeaders,
   accept : AcceptHeaders, userAgent : UserAgents]

\* No call of PaywallProvider.generateHtml is under way.
NoPaywallCall ==
  [handlers |-> <<>>, accepts |-> <<>>, index |-> 0, probes |-> <<>>,
   html |-> NoBody]

NoSettlement == [kind |-> "pending"]

NoPaymentRequired == [x402Version |-> 0]

NoArgs == [status |-> 0]

HandlerIdle == [state |-> "idle", status |-> 0]

NoBuilder == [config |-> <<>>]

NoUnitCall == [fn |-> None]

\* No concurrent requests, no PaywallBuilder and no direct call are part of
\* the run.
Idle ==
  /\ heap = <<>>
  /\ inflight = <<>>
  /\ builder = NoBuilder
  /\ unitCall = NoUnitCall

\* State shared by every specification, before a request or a call arrives.
Fresh ==
  /\ routeConfig = NoRoute
  /\ paymentPayload = NoPayload
  /\ requirements = <<>>
  /\ paymentRequired = NoPaymentRequired
  /\ matching = NoRequirement
  /\ result = NoResult
  /\ builderCalls = 0
  /\ verifyCalls = <<>>
  /\ verifyAnswers = <<>>
  /\ settleCalls = <<>>
  /\ settleAnswers = <<>>
  /\ settlement = NoSettlement
  /\ nextCalls = 0
  /\ handler = HandlerIdle
  /\ res = FreshResponse
  /\ delivered = NothingDelivered
  /\ warnings = 0
  /\ fault = None
  /\ trace = <<>>

\* paymentMiddleware has been constructed and a request arrives.
Init ==
  /\ Fresh
  /\ Idle
  /\ paywallCall = NoPaywallCall
  /\ deployment = BareDeployment
  /\ compiledRoutes = CompileRoutes(normalizedRoutes(deployment.routes))
  /\ request \in Requests
  /\ settlementArgs = NoArgs
  /\ pc = "receive"

resourceInfo == [url |-> getUrl(request.path)]

\* processHTTPRequest up to its first await: route lookup, payment
\* extraction, and the call of buildPaymentRequirements.
ProcessStart ==
  /\ pc = "receive"
  /\ LET config    == getRouteConfig(compiledRoutes, request.path, request.method)
         extracted == extractPayment(request.signature)
     IN  IF config = NoRoute
         THEN /\ result' = [type |-> "no-payment-required"]
              /\ pc' = "dispatch"
              /\ UNCHANGED <<routeConfig, paymentPayload, warnings,
                             builderCalls, fault, trace>>
         ELSE IF extracted.threw
         THEN /\ fault' = "DecodeError"
              /\ pc' = "done"
              /\ routeConfig' = config
              /\ UNCHANGED <<result, paymentPayload, warnings, builderCalls,
                             trace>>
         ELSE /\ routeConfig' = config
              /\ paymentPayload' = extracted.payload
              /\ warnings' = IF extracted.warned THEN warnings + 1 ELSE warnings
              /\ builderCalls' = builderCalls + 1
              /\ trace' = Append(trace, "build")
              /\ pc' = "awaitBuild"
              /\ UNCHANGED <<result, fault>>
  /\ UNCHANGED <<heap, inflight, builder, unitCall, paywallCall, deployment, compiledRoutes, request, requirements, paymentRequired,
                 matching, verifyCalls, verifyAnswers, settleCalls,
                 settleAnswers, settlementArgs, settlement, nextCalls, handler,
                 res, delivered>>

\* processHTTPRequest from the return of buildPaymentRequirements to the
\* call of verifyPayment, or to an early payment-error.
ProcessBuilt ==
  /\ pc = "awaitBuild"
  /\ \E built \in BuiltRequirements :
       LET reqs == attachResourceUrl(built, resourceInfo.url)
           required ==
             createPaymentRequiredResponse(reqs, resourceInfo,
                                           initialError(paymentPayload))
           found == findMatchingRequirements(required.accepts, paymentPayload)
       IN  /\ requirements' = reqs
           /\ paymentRequired' = required
           /\ IF paymentPayload = NoPayload
              THEN /\ result' = noPaymentResult(required,
                                  isWebBrowser(request.accept, request.userAgent),
                                  routeConfig.customPaywallHtml)
                   /\ pc' = "dispatch"
                   /\ UNCHANGED <<matching, verifyCalls, trace>>
              ELSE IF found = NoRequirement
              THEN /\ result' = noMatchResult(reqs, resourceInfo)
                   /\ pc' = "dispatch"
                   /\ UNCHANGED <<matching, verifyCalls, trace>>
              ELSE /\ matching' = found
                   /\ verifyCalls' = Append(verifyCalls,
                        [payload |-> paymentPayload, requirements |-> found])
                   /\ trace' = Append(trace, "verify")
                   /\ pc' = "awaitVerify"
                   /\ UNCHANGED result
  /\ UNCHANGED <<heap, inflight, builder, unitCall, paywallCall, deployment, compiledRoutes, request, routeConfig, paymentPayload,
                 builderCalls, verifyAnswers, settleCalls, settleAnswers,
                 settlementArgs, settlement, nextCalls, handler, res,
                 delivered, warnings, fault>>

\* processHTTPRequest after verifyPayment answered or threw.
ProcessVerified ==
  /\ pc = "awaitVerify"
  /\ \E v \in VerifyOutcomes :
       /\ verifyAnswers' = Append(verifyAnswers, v)
       /\ result' = IF v.kind = "throw"
                    THEN verifyCatchOutcome(v, requirements, resourceInfo)
                    ELSE verifyResultOutcome(v, paymentPayload, matching,
                                             requirements, resourceInfo)
       /\ trace' = Append(trace, IF v.kind = "return" /\ v.isValid
                                 THEN "valid" ELSE "rejected")
  /\ pc' = "dispatch"
  /\ UNCHANGED <<heap, inflight, builder, unitCall, paywallCall, deployment, compiledRoutes, request, routeConfig, paymentPayload,
                 requirements, paymentRequired, matching, builderCalls,
                 verifyCalls, settleCalls, settleAnswers, settlementArgs,
                 settlement, nextCalls, handler, res, delivered, warnings,
                 fault>>

\* ------------------------------------------------------- paymentMiddleware

\* next() runs the protected handler. A synchronous handler has answered
\* when next() returns; an asynchronous one answers at some later turn.
invokeHandler(r, d, mode, status, early) ==
  IF mode = "sync"
  THEN [handler |-> [state |-> "done", status |-> status],
        out |-> handlerResponds(r, d, status, early)]
  ELSE [handler |-> [state |-> "pending", status |-> 0],
        out |-> [res |-> r, delivered |-> d]]

\* The 402 the middleware writes for a payment-error result.
respondPaymentError(r, d, response) ==
  originalEnd(
    [r EXCEPT !.statusCode = response.status,
              !.contentType = response.contentType,
              !.paymentRequired = response.paymentRequired],
    d,
    IF response.isHtml THEN response.body
    ELSE IF response.body = NoBody THEN [kind |-> "json"]
    ELSE response.body)

\* The middleware acts on the result of processHTTPRequest: forward, answer
\* 402, or wrap res.end and forward.
MiddlewareDispatch ==
  /\ pc = "dispatch"
  /\ LET branch == middlewareBranch(result.type) IN
     IF branch = "respond"
     THEN /\ LET o == respondPaymentError(res, delivered, result.response) IN
               /\ res' = o.res
               /\ delivered' = o.delivered
          /\ pc' = "done"
          /\ UNCHANGED <<nextCalls, handler, trace>>
     ELSE \E mode \in {"sync", "async"}, status \in HandlerStatuses,
             early \in BOOLEAN :
            LET wrapped == IF branch = "wrap"
                           THEN [res EXCEPT !.endPatched = TRUE]
                           ELSE res
                h == invokeHandler(wrapped, delivered, mode, status, early)
            IN  /\ nextCalls' = nextCalls + 1
                /\ handler' = h.handler
                /\ res' = h.out.res
                /\ delivered' = h.out.delivered
                /\ trace' = trace \o (IF h.handler.state = "done"
                                      THEN <<"next", "handled">>
                                      ELSE <<"next">>)
                /\ pc' = IF branch = "wrap" THEN "awaitNext" ELSE "done"
  /\ UNCHANGED <<heap, inflight, builder, unitCall, paywallCall, deployment, compiledRoutes, request, routeConfig, paymentPayload,
                 requirements, paymentRequired, matching, result,
                 builderCalls, verifyCalls, verifyAnswers, settleCalls,
                 settleAnswers, settlementArgs, settlement, warnings, fault>>

\* An asynchronous handler answers.
HandlerCompletes ==
  /\ handler.state = "pending"
  /\ \E status \in HandlerStatuses, early \in BOOLEAN :
       LET o == handlerResponds(res, delivered, status, early) IN
         /\ res' = o.res
         /\ delivered' = o.delivered
         /\ handler' = [state |-> "done", status |-> status]
  /\ trace' = Append(trace, "handled")
  /\ UNCHANGED <<heap, inflight, builder, unitCall, paywallCall, deployment, compiledRoutes, request, pc, routeConfig, paymentPayload,
                 requirements, paymentRequired, matching, result,
                 builderCalls, verifyCalls, verifyAnswers, settleCalls,
                 settleAnswers, settlementArgs, settlement, nextCalls,
                 warnings, fault>>

\* "const { paymentPayload, paymentRequirements } = result" and the
\* arguments the middleware hands to processSettlement; a result without
\* these fields destructures to undefined.
settlementCall(r, statusCode) ==
  [payload      |-> IF r.type = "payment-verified"
                    THEN r.paymentPayload ELSE NoPayload,
   requirements |-> IF r.type = "payment-verified"
                    THEN r.paymentRequirements ELSE NoRequirement,
   status       |-> statusCode]

\* The middleware resumes after "await next()": a failed status ends the
\* response unsettled, anything else enters processSettlement, which calls
\* settlePayment unless its own guard returns null.
MiddlewareAfterNext ==
  /\ pc = "awaitNext"
  /\ IF skipsSettlement(res.statusCode)
     THEN /\ LET o == restoreEnd(res, delivered) IN
               /\ res' = o.res
               /\ delivered' = o.delivered
          /\ pc' = "done"
          /\ UNCHANGED <<settleCalls, settlementArgs, settlement, trace>>
     ELSE /\ settlementArgs' = settlementCall(result, res.statusCode)
          /\ IF settlementSkipped(res.statusCode)
             THEN /\ settlement' = [kind |-> "null"]
                  /\ LET o == restoreEnd(res, delivered) IN
                       /\ res' = o.res
                       /\ delivered' = o.delivered
                  /\ pc' = "done"
                  /\ UNCHANGED <<settleCalls, trace>>
             ELSE /\ settleCalls' = Append(settleCalls,
                       [payload |-> settlementArgs'.payload,
                        requirements |-> settlementArgs'.requirements])
                  /\ trace' = Append(trace, "settle")
                  /\ pc' = "awaitSettle"
                  /\ UNCHANGED <<res, delivered, settlement>>
  /\ UNCHANGED <<heap, inflight, builder, unitCall, paywallCall, deployment, compiledRoutes, request, routeConfig, paymentPayload,
                 requirements, paymentRequired, matching, result,
                 builderCalls, verifyCalls, verifyAnswers, settleAnswers,
                 nextCalls, handler, warnings, fault>>

\* The middleware with a catch that only logs the settlement error.
afterSettlementOnlyLogs(r, d, ret) ==
  IF ret.kind = "headers" /\ ~r.headersSent
  THEN restoreEnd([r EXCEPT !.paymentResponse = ret.paymentResponse], d)
  ELSE restoreEnd(r, d)

\* The try / catch / finally of the middleware around processSettlement,
\* once settlePayment has answered. res.setHeader throws when the headers
\* have gone out; res.status(402).json(...) ends in the wrapped res.end.
afterSettlement(r, d, ret) ==
  IF ret.kind = "headers" /\ ~r.headersSent
  THEN restoreEnd([r EXCEPT !.paymentResponse = ret.paymentResponse], d)
  ELSE IF ~r.headersSent
  THEN LET r1 == [r EXCEPT !.statusCode = 402,
                           !.contentType = "application/json"]
           e  == resEnd(r1, d, [kind |-> "settlement-failed"])
       IN  restoreEnd(e.res, e.delivered)
  ELSE restoreEnd(r, d)

\* settlePayment answers; processSettlement returns or throws; the middleware
\* finishes the response.
MiddlewareSettled ==
  /\ pc = "awaitSettle"
  /\ \E outcome \in SettleOutcomes :
       LET ret == settlementReturn(outcome)
           o   == afterSettlement(res, delivered, ret)
       IN  /\ settleAnswers' = Append(settleAnswers, outcome)
           /\ settlement' = ret
           /\ res' = o.res
           /\ delivered' = o.delivered
           /\ trace' = Append(trace, IF ret.kind = "throw"
                                     THEN "settle-failed" ELSE "settled")
  /\ pc' = "done"
  /\ UNCHANGED <<heap, inflight, builder, unitCall, paywallCall, deployment, compiledRoutes, request, routeConfig, paymentPayload,
                 requirements, paymentRequired, matching, result,
                 builderCalls, verifyCalls, verifyAnswers, settleCalls,
                 settlementArgs, nextCalls, handler, warnings, fault>>

Next ==
  \/ ProcessStart
  \/ ProcessBuilt
  \/ ProcessVerified
  \/ MiddlewareDispatch
  \/ HandlerCompletes
  \/ MiddlewareAfterNext
  \/ MiddlewareSettled

Spec == Init /\ [][Next]_vars

\* ------------------------------------------ processSettlement called alone

\* Response statuses a caller may hand to processSettlement.
ResponseStatuses == {200, 204, 302, 399, 400, 402, 404, 500}

\* Arguments of a direct call: a payload, a requirement as a payment-verified
\* result carries it, and the status of the protected response.
SettlementCalls ==
  [payload : Payloads,
   requirements : UNION {Range(attachResourceUrl(<<q>>, getUrl(path))) :
                           q \in RequirementPool,
                           path \in {<<Slash, "a">>, <<Slash, "i", Slash, "x">>}},
   status : ResponseStatuses]

\* A caller other than the Express middleware is about to call
\* processSettlement(payload, requirements, status).
InitSettlement ==
  /\ Fresh
  /\ Idle
  /\ paywallCall = NoPaywallCall
  /\ deployment = BareDeployment
  /\ compiledRoutes = CompileRoutes(normalizedRoutes(deployment.routes))
  /\ request = [path |-> <<Slash, "a">>, method |-> "GET",
                signature |-> AbsentHeader, legacy |-> AbsentHeader,
                accept |-> <<"application/json">>,
                userAgent |-> <<"curl", "/8">>]
  /\ settlementArgs \in SettlementCalls
  /\ pc = "callSettlement"

\* processSettlement up to its await: the status guard, then settlePayment.
SettlementEnter ==
  /\ pc = "callSettlement"
  /\ IF settlementSkipped(settlementArgs.status)
     THEN /\ settlement' = [kind |-> "null"]
          /\ pc' = "returned"
          /\ UNCHANGED <<settleCalls, trace>>
     ELSE /\ settleCalls' = Append(settleCalls,
               [payload |-> settlementArgs.payload,
                requirements |-> settlementArgs.requirements])
          /\ trace' = Append(trace, "settle")
          /\ pc' = "awaitSettlePayment"
          /\ UNCHANGED settlement
  /\ UNCHANGED <<heap, inflight, builder, unitCall, paywallCall, deployment, compiledRoutes, request, routeConfig, paymentPayload,
                 requirements, paymentRequired, matching, result,
                 builderCalls, verifyCalls, verifyAnswers, settleAnswers,
                 settlementArgs, nextCalls, handler, res, delivered, warnings,
                 fault>>

\* settlePayment answers: processSettlement returns the header or rethrows.
SettlementAnswered ==
  /\ pc = "awaitSettlePayment"
  /\ \E outcome \in SettleOutcomes :
       /\ settleAnswers' = Append(settleAnswers, outcome)
       /\ settlement' = settlementReturn(outcome)
       /\ trace' = Append(trace, IF outcome.kind = "throw"
                                 THEN "settle-failed" ELSE "settled")
  /\ pc' = "returned"
  /\ UNCHANGED <<heap, inflight, builder, unitCall, paywallCall, deployment, compiledRoutes, request, routeConfig, paymentPayload,
                 requirements, paymentRequired, matching, result,
                 builderCalls, verifyCalls, verifyAnswers, settleCalls,
                 settlementArgs, nextCalls, handler, res, delivered, warnings,
                 fault>>

NextSettlement ==
  \/ SettlementEnter
  \/ SettlementAnswered

SpecSettlement == InitSettlement /\ [][NextSettlement]_vars

\* ------------------------------------- failing collaborators and transport

\* buildPaymentRequirements rejects: the await at the top of
\* processHTTPRequest stands outside its try block, and the middleware awaits
\* processHTTPRequest outside any try block, so the rejection leaves both.
ProcessBuildFails ==
  /\ pc = "awaitBuild"
  /\ fault' = "BuildError"
  /\ trace' = Append(trace, "build-failed")
  /\ pc' = "done"
  /\ UNCHANGED <<heap, inflight, builder, unitCall, paywallCall, deployment, compiledRoutes, request, routeConfig, paymentPayload,
                 requirements, paymentRequired, matching, result,
                 builderCalls, verifyCalls, verifyAnswers, settleCalls,
                 settleAnswers, settlementArgs, settlement, nextCalls,
                 handler, res, delivered, warnings>>

\* The client goes away while the request is in flight. Neither the
\* middleware nor the service listens for it.
TransportAborts ==
  /\ ~res.finished
  /\ "aborted" \notin Range(trace)
  /\ trace' = Append(trace, "aborted")
  /\ UNCHANGED <<heap, inflight, builder, unitCall, paywallCall, deployment, compiledRoutes, request, pc, routeConfig, paymentPayload,
                 requirements, paymentRequired, matching, result,
                 builderCalls, verifyCalls, verifyAnswers, settleCalls,
                 settleAnswers, settlementArgs, settlement, nextCalls,
                 handler, res, delivered, warnings, fault>>

\* A request from a client that is no browser and sends no legacy header.
InitFaults ==
  /\ Init
  /\ request.legacy = AbsentHeader
  /\ request.accept = <<"application/json">>
  /\ request.userAgent = <<"curl", "/8">>

NextFaults ==
  \/ Next
  \/ ProcessBuildFails
  \/ TransportAborts

SpecFaults == InitFaults /\ [][NextFaults]_vars

\* ------------------------------------------------ construction and lookup

\* Route tables an integrator may hand to the constructor: the table of the
\* request specifications, a table whose patterns overlap, one un-keyed
\* RouteConfig, and tables with characters that are special in a RegExp.
RouteTables ==
  { KeyedRoutes(RoutesConfig),
    KeyedRoutes(
      << [pattern |-> <<"POST", " ", Slash, "a", Slash, "*">>,
          config  |-> RoutesConfig[1].config],
         [pattern |-> <<Slash, "a", Slash, "[", "i", "d", "]">>,
          config  |-> RoutesConfig[2].config],
         [pattern |-> <<Slash, "a", Slash, "*">>,
          config  |-> RoutesConfig[3].config] >>),
    SingleRoute(RoutesConfig[1].config),
    KeyedRoutes(
      << [pattern |-> <<Slash, "a", ".", "b">>,
          config  |-> RoutesConfig[1].config],
         [pattern |-> <<Slash, "a", "[", "]">>,
          config  |-> RoutesConfig[2].config] >>),
    KeyedRoutes(
      << [pattern |-> <<Slash, "a", "[">>,
          config  |-> RoutesConfig[1].config] >>) }

\* Paths and methods looked up.
LookupPaths ==
  { <<Slash, "a">>,
    <<Slash, "a", Slash, "x">>,
    <<Slash, "A", Slash, "X">>,
    <<Slash, "a", Slash, "x", Slash, "b">>,
    <<Slash, "a", Slash, "%">>,
    <<Slash, "a", Slash, "%0A">>,
    <<Slash, "a", ".", "b">>,
    <<Slash, "a", "x", "b">>,
    <<Slash, "a", "[", "]">>,
    <<Slash, "b">> }

LookupMethods == {"GET", "post", "DELETE"}

\* Constructions and lookups followed in one behaviour.
MaxSteps == 4

\* new x402HTTPResourceService(routes) on an instance sharing the compiled
\* list of the instance built before it.
constructShared(existing, routes) ==
  existing \o CompileRoutes(normalizedRoutes(routes))

\* new x402HTTPResourceService(routes): the field initializer gives every
\* instance an empty list, whatever was built before, and the loop pushes
\* one compiled route per entry.
construct(existing, routes) ==
  <<>> \o CompileRoutes(normalizedRoutes(routes))

\* No service has been constructed yet.
InitRoutes ==
  /\ Fresh
  /\ Idle
  /\ paywallCall = NoPaywallCall
  /\ deployment \in [paywallPackage : {FALSE}, paywall : {NoProvider},
                      routes : RouteTables]
  /\ compiledRoutes = <<>>
  /\ request = [path |-> <<Slash>>, method |-> "GET",
                signature |-> AbsentHeader, legacy |-> AbsentHeader,
                accept |-> <<"application/json">>,
                userAgent |-> <<"curl", "/8">>]
  /\ settlementArgs = NoArgs
  /\ pc = "construct"

\* The constructor runs, for the first time or again on the same table; a
\* pattern the RegExp constructor rejects makes it throw.
Construct ==
  /\ pc \in {"construct", "ready"}
  /\ Len(trace) < MaxSteps
  /\ LET compiled == construct(compiledRoutes, deployment.routes) IN
       IF \E i \in DOMAIN compiled :
            \E k \in DOMAIN compiled[i].regex :
              compiled[i].regex[k].kind = "invalid"
       THEN /\ fault' = "SyntaxError"
            /\ pc' = "done"
            /\ UNCHANGED compiledRoutes
       ELSE /\ compiledRoutes' = compiled
            /\ pc' = "ready"
            /\ UNCHANGED fault
  /\ trace' = Append(trace, "construct")
  /\ UNCHANGED <<heap, inflight, builder, unitCall, paywallCall, deployment, request, routeConfig,
                 paymentPayload, requirements, paymentRequired, matching,
                 result, builderCalls, verifyCalls, verifyAnswers,
                 settleCalls, settleAnswers, settlementArgs, settlement,
                 nextCalls, handler, res, delivered, warnings>>

\* getRouteConfig(path, method) on the constructed service.
Lookup ==
  /\ pc = "ready"
  /\ Len(trace) < MaxSteps
  /\ \E path \in LookupPaths, method \in LookupMethods :
       /\ request' = [request EXCEPT !.path = path, !.method = method]
       /\ routeConfig' = getRouteConfig(compiledRoutes, path, method)
  /\ trace' = Append(trace, "lookup")
  /\ UNCHANGED <<heap, inflight, builder, unitCall, paywallCall, deployment, compiledRoutes, pc,
                 paymentPayload, requirements, paymentRequired, matching,
                 result, builderCalls, verifyCalls, verifyAnswers,
                 settleCalls, settleAnswers, settlementArgs, settlement,
                 nextCalls, handler, res, delivered, warnings, fault>>

NextRoutes ==
  \/ Construct
  \/ Lookup

SpecRoutes == InitRoutes /\ [][NextRoutes]_vars

\* ------------------------------------------------- browsers and the paywall

\* A browser or another client asks for a protected resource without a
\* payment header, under any installation.
InitPaywall ==
  /\ Fresh
  /\ Idle
  /\ paywallCall = NoPaywallCall
  /\ deployment \in Deployments
  /\ compiledRoutes = CompileRoutes(normalizedRoutes(deployment.routes))
  /\ request \in [path : {<<Slash, "a">>, <<Slash, "p", Slash, "x", Slash, "b">>},
                   method : {"GET"},
                   signature : {AbsentHeader}, legacy : {AbsentHeader},
                   accept : AcceptHeaders, userAgent : UserAgents]
  /\ settlementArgs = NoArgs
  /\ pc = "receive"

NextPaywall ==
  \/ ProcessStart
  \/ ProcessBuilt
  \/ MiddlewareDispatch

SpecPaywall == InitPaywall /\ [][NextPaywall]_vars

\* ------------------------------------------- PaywallBuilder and its handlers

\* String.prototype.startsWith on the network identifiers of the model.
startsWith(network, prefix) ==
  CASE network \in {"solana:devnet", "solana:5eykt"} -> prefix = "solana:"
    [] network \in {"eip155:8453", "eip155:1"} -> prefix = "eip155:"
    [] OTHER -> FALSE

\* Legacy network names of the EVM family.
EVM_NETWORKS ==
  {"abstract", "abstract-testnet", "base-sepolia", "base", "avalanche-fuji",
   "avalanche", "iotex", "sei", "sei-testnet", "polygon", "polygon-amoy",
   "peaq"}

\* An argument of a call: a number or a requirement.
NumberArg(n) == [type |-> "number", value |-> n]

RequirementArg(r) == [type |-> "requirement", value |-> r]

\* evmPaywall.supports(x402Version, requirement), applied to the arguments
\* of a call. A missing second argument leaves requirement undefined, and
\* reading its network throws a TypeError.
evmSupports(args) ==
  IF Len(args) < 2
  THEN [threw |-> TRUE, value |-> FALSE]
  ELSE LET x402Version == args[1]
           network     == args[2].value.network
       IN  IF x402Version.type = "number" /\ x402Version.value = 2
           THEN [threw |-> FALSE, value |-> startsWith(network, "eip155:")]
           ELSE IF x402Version.type = "number" /\ x402Version.value = 1
           THEN [threw |-> FALSE, value |-> network \in EVM_NETWORKS]
           ELSE [threw |-> FALSE, value |-> FALSE]

\* svmPaywall.supports(requirement), applied to the arguments of a call. A
\* number in the place of the requirement has no network, and calling
\* startsWith on undefined throws a TypeError.
svmSupports(args) ==
  IF Len(args) < 1 \/ args[1].type # "requirement"
  THEN [threw |-> TRUE, value |-> FALSE]
  ELSE LET network == args[1].value.network
       IN  [threw |-> FALSE,
            value |-> \/ startsWith(network, "solana:")
                      \/ network \in {"solana", "solana-devnet"}]

\* h.supports(...args) for a registered handler h.
supports(h, args) ==
  IF h = "evmPaywall" THEN evmSupports(args) ELSE svmSupports(args)

\* handlers.find(h => h.supports(requirement)): the first handler answering
\* true, the supports calls made on the way, or the exception of one of them.
RECURSIVE findHandler(_, _, _)
findHandler(handlers, requirement, probes) ==
  IF handlers = <<>>
  THEN [kind |-> "none", handler |-> None, probes |-> probes]
  ELSE LET h  == Head(handlers)
           r  == supports(h, <<RequirementArg(requirement)>>)
           ps == Append(probes, [handler |-> h, network |-> requirement.network])
       IN  IF r.threw THEN [kind |-> "throw", handler |-> h, probes |-> ps]
           ELSE IF r.value THEN [kind |-> "found", handler |-> h, probes |-> ps]
           ELSE findHandler(Tail(handlers), requirement, ps)

\* handler.generateHtml(requirement, paymentRequired, config): the page of
\* one network, for the one requirement.
handlerGenerateHtml(h, requirement) ==
  [kind |-> "html", source |-> h,
   data |-> [paymentRequirements |-> <<requirement>>]]

\* getPaywallHtml over the whole accepts list: the default page.
getPaywallHtml(accepts) ==
  [kind |-> "html", source |-> "getPaywallHtml",
   data |-> [paymentRequirements |-> accepts]]

\* Requirements a PaymentRequired handed to a provider may list.
ProviderRequirements ==
  { [scheme |-> "exact", network |-> "solana:devnet", amount |-> "100000"],
    [scheme |-> "exact", network |-> "eip155:8453",   amount |-> "100000"],
    [scheme |-> "exact", network |-> "near:testnet",  amount |-> "100000"] }

ProviderAccepts ==
  UNION {[1..n -> ProviderRequirements] : n \in 0..MaxAccepts}

\* A provider built from some handlers is about to be asked for a page.
InitProvider ==
  /\ Fresh
  /\ Idle
  /\ deployment = BareDeployment
  /\ compiledRoutes = CompileRoutes(normalizedRoutes(deployment.routes))
  /\ request = [path |-> <<Slash, "a">>, method |-> "GET",
                signature |-> AbsentHeader, legacy |-> AbsentHeader,
                accept |-> <<"text/html", ",", "*/*">>,
                userAgent |-> <<"Mozilla", "/5.0">>]
  /\ settlementArgs = NoArgs
  /\ paywallCall \in [handlers : HandlerLists, accepts : ProviderAccepts,
                      index : {0}, probes : {<<>>}, html : {NoBody}]
  /\ pc = "callGenerateHtml"

\* generateHtml is entered: with handlers registered the scan of accepts
\* begins, without any the default page is next.
GenerateHtmlCalled ==
  /\ pc = "callGenerateHtml"
  /\ IF Len(paywallCall.handlers) > 0
     THEN /\ paywallCall' = [paywallCall EXCEPT !.index = 1]
          /\ pc' = "scan"
     ELSE /\ pc' = "default"
          /\ UNCHANGED paywallCall
  /\ UNCHANGED <<heap, inflight, builder, unitCall, deployment, compiledRoutes, request, routeConfig,
                 paymentPayload, requirements, paymentRequired, matching,
                 result, builderCalls, verifyCalls, verifyAnswers,
                 settleCalls, settleAnswers, settlementArgs, settlement,
                 nextCalls, handler, res, delivered, warnings, fault, trace>>

\* One turn of "for (const requirement of paymentRequired.accepts)".
GenerateHtmlScan ==
  /\ pc = "scan"
  /\ IF paywallCall.index > Len(paywallCall.accepts)
     THEN /\ pc' = "default"
          /\ UNCHANGED <<paywallCall, fault>>
     ELSE LET requirement == paywallCall.accepts[paywallCall.index]
              found == findHandler(paywallCall.handlers, requirement,
                                   paywallCall.probes)
          IN  IF found.kind = "throw"
              THEN /\ fault' = "TypeError"
                   /\ paywallCall' = [paywallCall EXCEPT !.probes = found.probes]
                   /\ pc' = "returned"
              ELSE IF found.kind = "found"
              THEN /\ paywallCall' =
                        [paywallCall EXCEPT
                           !.probes = found.probes,
                           !.html = handlerGenerateHtml(found.handler, requirement)]
                   /\ pc' = "returned"
                   /\ UNCHANGED fault
              ELSE /\ paywallCall' =
                        [paywallCall EXCEPT !.probes = found.probes,
                                            !.index = paywallCall.index + 1]
                   /\ pc' = "scan"
                   /\ UNCHANGED fault
  /\ UNCHANGED <<heap, inflight, builder, unitCall, deployment, compiledRoutes, request, routeConfig,
                 paymentPayload, requirements, paymentRequired, matching,
                 result, builderCalls, verifyCalls, verifyAnswers,
                 settleCalls, settleAnswers, settlementArgs, settlement,
                 nextCalls, handler, res, delivered, warnings, trace>>

\* No handler was chosen: the default page over the whole accepts list.
GenerateHtmlDefault ==
  /\ pc = "default"
  /\ paywallCall' = [paywallCall EXCEPT !.html = getPaywallHtml(paywallCall.accepts)]
  /\ pc' = "returned"
  /\ UNCHANGED <<heap, inflight, builder, unitCall, deployment, compiledRoutes, request, routeConfig,
                 paymentPayload, requirements, paymentRequired, matching,
                 result, builderCalls, verifyCalls, verifyAnswers,
                 settleCalls, settleAnswers, settlementArgs, settlement,
                 nextCalls, handler, res, delivered, warnings, fault, trace>>

NextProvider ==
  \/ GenerateHtmlCalled
  \/ GenerateHtmlScan
  \/ GenerateHtmlDefault

SpecProvider == InitProvider /\ [][NextProvider]_vars

\* ---------------------------------------- requests processed concurrently
\* Several calls of processHTTPRequest are under way on one service. Each
\* runs to its next await without interruption; at an await any other call
\* may run. Requirement objects live on the heap and are held by reference.

\* Calls of processHTTPRequest under way together.
MaxRequests == 2

\* The request of the i-th call: resource i under the route "GET /p/*",
\* without a payment header or with a payload.
ConcurrentPath(i) == <<Slash, "p", Slash, ToString(i)>>

ConcurrentSignatures ==
  {AbsentHeader,
   encodePaymentSignatureHeader(CHOOSE p \in Payloads : p.payload = "sigA")}

\* Lists the requirement builder returns here: no requirement twice.
ConcurrentLists ==
  {b \in BuiltRequirements :
     /\ Len(b) >= 1
     /\ \A i \in DOMAIN b : b[i].amount = "100000"
     /\ \A i, j \in DOMAIN b : i # j => b[i] # b[j]}

NoAnswer == [kind |-> "pending"]

\* The locals of one call of processHTTPRequest.
Frame(req) ==
  [request |-> req, pc |-> "receive", routeConfig |-> NoRoute,
   paymentPayload |-> NoPayload, built |-> <<>>, requirements |-> <<>>,
   matching |-> 0, verify |-> NoAnswer, result |-> NoResult,
   overlapped |-> FALSE]

\* The objects behind a list of references.
deref(h, ids) == [i \in DOMAIN ids |-> h[ids[i]].value]

\* The objects behind ids after an in-place update to the given values.
store(h, ids, values) ==
  [k \in DOMAIN h |->
     IF \E i \in DOMAIN ids : ids[i] = k
     THEN [h[k] EXCEPT !.value = values[CHOOSE i \in DOMAIN ids : ids[i] = k]]
     ELSE h[k]]

\* Call r has resumed and run to its next await or to its end: every other
\* call suspended at an await has been overlapped by it.
resumed(calls, r, frame) ==
  [s \in DOMAIN calls |->
     IF s = r THEN frame
     ELSE IF calls[s].pc \in {"awaitBuild", "awaitVerify"}
     THEN [calls[s] EXCEPT !.overlapped = TRUE]
     ELSE calls[s]]

\* A requirement as the builder made it, before resourceUrl is attached.
unstamped(r) == [scheme |-> r.scheme, network |-> r.network, amount |-> r.amount]

\* A requirement builder that keeps the list it built for a route and
\* returns the same objects to every later request of that route.
buildPaymentRequirementsCached(h, config, built) ==
  LET cached == {k \in DOMAIN h : h[k].route = config.id} IN
  IF cached # {}
  THEN [heap |-> h,
        ids  |-> CHOOSE f \in [1..Cardinality(cached) -> cached] :
                   \A i, j \in DOMAIN f : i < j => f[i] < f[j]]
  ELSE [heap |-> h \o [i \in DOMAIN built |->
                         [route |-> config.id, value |-> built[i]]],
        ids  |-> [i \in DOMAIN built |-> Len(h) + i]]

\* buildPaymentRequirements(routeConfig): requirements are derived per
\* request, so each call returns objects no other request holds.
buildPaymentRequirements(h, config, built) ==
  [heap |-> h \o [i \in DOMAIN built |->
                    [route |-> config.id, value |-> built[i]]],
   ids  |-> [i \in DOMAIN built |-> Len(h) + i]]

InitConcurrent ==
  /\ Fresh
  /\ paywallCall = NoPaywallCall
  /\ builder = NoBuilder
  /\ unitCall = NoUnitCall
  /\ deployment = BareDeployment
  /\ compiledRoutes = CompileRoutes(normalizedRoutes(deployment.routes))
  /\ request = [path |-> <<Slash>>, method |-> "GET",
                signature |-> AbsentHeader, legacy |-> AbsentHeader,
                accept |-> <<"application/json">>,
                userAgent |-> <<"curl", "/8">>]
  /\ settlementArgs = NoArgs
  /\ pc = "serving"
  /\ heap = <<>>
  /\ inflight \in
       {[i \in 1..MaxRequests |->
           Frame([path |-> ConcurrentPath(i), method |-> "GET",
                  signature |-> sig[i], legacy |-> AbsentHeader,
                  accept |-> <<"application/json">>,
                  userAgent |-> <<"curl", "/8">>])] :
          sig \in [1..MaxRequests -> ConcurrentSignatures]}

\* processHTTPRequest of call r up to its first await.
ConcurrentStart ==
  /\ \E r \in DOMAIN inflight :
       /\ inflight[r].pc = "receive"
       /\ LET f         == inflight[r]
              config    == getRouteConfig(compiledRoutes, f.request.path,
                                          f.request.method)
              extracted == extractPayment(f.request.signature)
          IN  inflight' =
                resumed(inflight, r,
                   IF config = NoRoute
                   THEN [f EXCEPT !.result = [type |-> "no-payment-required"],
                                  !.pc = "done"]
                   ELSE [f EXCEPT !.routeConfig = config,
                                  !.paymentPayload = extracted.payload,
                                  !.pc = "awaitBuild"])
       /\ UNCHANGED heap
  /\ UNCHANGED <<builder, unitCall, paywallCall, deployment, compiledRoutes,
                 request, pc, routeConfig, paymentPayload, requirements,
                 paymentRequired, matching, result, builderCalls, verifyCalls,
                 verifyAnswers, settleCalls, settleAnswers, settlementArgs,
                 settlement, nextCalls, handler, res, delivered, warnings,
                 fault, trace>>

\* Call r resumes with the built requirements: it stamps resourceUrl on each
\* object, then answers without a payload or a match, or calls verifyPayment.
ConcurrentBuilt ==
  /\ \E r \in DOMAIN inflight :
       /\ inflight[r].pc = "awaitBuild"
       /\ \E built \in ConcurrentLists :
            LET f        == inflight[r]
                a        == buildPaymentRequirements(heap, f.routeConfig, built)
                info     == [url |-> getUrl(f.request.path)]
                reqs     == attachResourceUrl(deref(a.heap, a.ids), info.url)
                required == createPaymentRequiredResponse(
                              reqs, info, initialError(f.paymentPayload))
                found    == findMatchingRequirements(required.accepts,
                                                     f.paymentPayload)
                g        == [f EXCEPT !.requirements = a.ids,
                                      !.built = [i \in DOMAIN a.ids |->
                                                   unstamped(a.heap[a.ids[i]].value)]]
            IN  /\ heap' = store(a.heap, a.ids, reqs)
                /\ inflight' =
                     resumed(inflight, r,
                        IF f.paymentPayload = NoPayload
                        THEN [g EXCEPT !.result = noPaymentResult(required,
                                          isWebBrowser(f.request.accept,
                                                       f.request.userAgent),
                                          f.routeConfig.customPaywallHtml),
                                       !.pc = "done"]
                        ELSE IF found = NoRequirement
                        THEN [g EXCEPT !.result = noMatchResult(reqs, info),
                                       !.pc = "done"]
                        ELSE [g EXCEPT !.matching =
                                          a.ids[CHOOSE i \in DOMAIN reqs :
                                                  /\ reqs[i] = found
                                                  /\ \A j \in 1..(i - 1) : reqs[j] # found],
                                       !.pc = "awaitVerify"])
  /\ UNCHANGED <<builder, unitCall, paywallCall, deployment, compiledRoutes,
                 request, pc, routeConfig, paymentPayload, requirements,
                 paymentRequired, matching, result, builderCalls, verifyCalls,
                 verifyAnswers, settleCalls, settleAnswers, settlementArgs,
                 settlement, nextCalls, handler, res, delivered, warnings,
                 fault, trace>>

\* Call r resumes after verifyPayment answered or threw; a payment-verified
\* result refers to the matching requirement object.
ConcurrentVerified ==
  /\ \E r \in DOMAIN inflight :
       /\ inflight[r].pc = "awaitVerify"
       /\ \E v \in VerifyOutcomes :
            LET f    == inflight[r]
                info == [url |-> getUrl(f.request.path)]
                reqs == deref(heap, f.requirements)
            IN  inflight' =
                  resumed(inflight, r,
                     [f EXCEPT !.verify = v,
                               !.result =
                                  IF v.kind = "throw"
                                  THEN verifyCatchOutcome(v, reqs, info)
                                  ELSE verifyResultOutcome(v, f.paymentPayload,
                                                           f.matching, reqs, info),
                               !.pc = "done"])
       /\ UNCHANGED heap
  /\ UNCHANGED <<builder, unitCall, paywallCall, deployment, compiledRoutes,
                 request, pc, routeConfig, paymentPayload, requirements,
                 paymentRequired, matching, result, builderCalls, verifyCalls,
                 verifyAnswers, settleCalls, settleAnswers, settlementArgs,
                 settlement, nextCalls, handler, res, delivered, warnings,
                 fault, trace>>

NextConcurrent ==
  \/ ConcurrentStart
  \/ ConcurrentBuilt
  \/ ConcurrentVerified

SpecConcurrent == InitConcurrent /\ [][NextConcurrent]_vars

\* ------------------------------------------------- PaywallBuilder in use
\* createPaywall(), then withConfig / withNetwork / build in any order, and
\* calls of the built provider's generateHtml. The handlers array is held by
\* reference: by the builder, and by the provider that build() returns.

\* withConfig and withNetwork calls made on one builder.
MaxBuilderCalls == 3

\* PaywallConfig objects: appName and cdpClientKey, each present or not.
PaywallConfigs ==
  {c \in UNION {[K -> {"App 1", "App 2", "key-1"}] :
                  K \in SUBSET {"appName", "cdpClientKey"}} :
     /\ "appName" \in DOMAIN c => c["appName"] \in {"App 1", "App 2"}
     /\ "cdpClientKey" \in DOMAIN c => c["cdpClientKey"] = "key-1"}

\* {}: the initial config of a builder, and an omitted runtimeConfig.
EmptyConfig == CHOOSE c \in PaywallConfigs : DOMAIN c = {}

\* { ...a, ...b } with the properties of a taking precedence.
spreadFirstWins(a, b) ==
  [k \in DOMAIN a \cup DOMAIN b |-> IF k \in DOMAIN a THEN a[k] ELSE b[k]]

\* { ...a, ...b }
spread(a, b) ==
  [k \in DOMAIN a \cup DOMAIN b |-> IF k \in DOMAIN b THEN b[k] ELSE a[k]]

\* The accepts lists handed to generateHtml.
BuilderAccepts ==
  {a \in ProviderAccepts :
     \/ Len(a) = 0
     \/ a[1].network \in {"solana:devnet", "near:testnet"} /\ Len(a) = 1
     \/ Len(a) = 2 /\ a[1].network = "near:testnet"
                   /\ a[2].network = "solana:devnet"}

\* "for (const requirement of paymentRequired.accepts)" with
\* handlers.find(...) inside: the first requirement some handler supports.
RECURSIVE scanAccepts(_, _)
scanAccepts(handlers, accepts) ==
  IF accepts = <<>> THEN [kind |-> "none"]
  ELSE LET found == findHandler(handlers, Head(accepts), <<>>) IN
       IF found.kind = "throw" THEN [kind |-> "throw"]
       ELSE IF found.kind = "found"
       THEN [kind |-> "html",
             page |-> handlerGenerateHtml(found.handler, Head(accepts))]
       ELSE scanAccepts(handlers, Tail(accepts))

\* provider.generateHtml(paymentRequired, runtimeConfig), for a provider that
\* captured builderConfig and the handlers array.
generateHtml(builderConfig, handlers, accepts, runtimeConfig) ==
  LET finalConfig == spread(builderConfig, runtimeConfig)
      scan == IF Len(handlers) > 0 THEN scanAccepts(handlers, accepts)
              ELSE [kind |-> "none"]
  IN  IF scan.kind = "throw"
      THEN [threw |-> TRUE, config |-> finalConfig, page |-> NoBody]
      ELSE IF scan.kind = "html"
      THEN [threw |-> FALSE, config |-> finalConfig, page |-> scan.page]
      ELSE [threw |-> FALSE, config |-> finalConfig,
            page |-> getPaywallHtml(accepts)]

NoCall == [made |-> FALSE]

\* createPaywall(): config {}, handlers a new empty array (object 1).
InitBuilder ==
  /\ Fresh
  /\ heap = <<>>
  /\ inflight = <<>>
  /\ unitCall = NoUnitCall
  /\ paywallCall = NoPaywallCall
  /\ deployment = BareDeployment
  /\ compiledRoutes = CompileRoutes(normalizedRoutes(deployment.routes))
  /\ request = [path |-> <<Slash, "a">>, method |-> "GET",
                signature |-> AbsentHeader, legacy |-> AbsentHeader,
                accept |-> <<"text/html", ",", "*/*">>,
                userAgent |-> <<"Mozilla", "/5.0">>]
  /\ settlementArgs = NoArgs
  /\ pc = "building"
  /\ builder = [config |-> EmptyConfig, handlers |-> 1, arrays |-> << <<>> >>,
                calls |-> <<>>, provider |-> NoProvider, atBuild |-> <<>>,
                call |-> NoCall]

\* builder.withConfig(config)
WithConfig ==
  /\ Len(builder.calls) < MaxBuilderCalls
  /\ ~builder.call.made
  /\ \E config \in PaywallConfigs :
       builder' = [builder EXCEPT
                     !.config = spread(builder.config, config),
                     !.calls = Append(builder.calls,
                                      [fn |-> "withConfig", arg |-> config])]
  /\ UNCHANGED <<heap, inflight, unitCall, paywallCall, deployment,
                 compiledRoutes, request, pc, routeConfig, paymentPayload,
                 requirements, paymentRequired, matching, result,
                 builderCalls, verifyCalls, verifyAnswers, settleCalls,
                 settleAnswers, settlementArgs, settlement, nextCalls,
                 handler, res, delivered, warnings, fault, trace>>

\* builder.withNetwork(handler): this.handlers.push(handler)
WithNetwork ==
  /\ Len(builder.calls) < MaxBuilderCalls
  /\ ~builder.call.made
  /\ \E h \in PaywallHandlers :
       builder' = [builder EXCEPT
                     !.arrays[builder.handlers] = Append(@, h),
                     !.calls = Append(builder.calls,
                                      [fn |-> "withNetwork", arg |-> h])]
  /\ UNCHANGED <<heap, inflight, unitCall, paywallCall, deployment,
                 compiledRoutes, request, pc, routeConfig, paymentPayload,
                 requirements, paymentRequired, matching, result,
                 builderCalls, verifyCalls, verifyAnswers, settleCalls,
                 settleAnswers, settlementArgs, settlement, nextCalls,
                 handler, res, delivered, warnings, fault, trace>>

\* builder.build(): the provider captures this.config and this.handlers as
\* they are referred to at this moment.
Build ==
  /\ builder.provider = NoProvider
  /\ builder' = [builder EXCEPT
                   !.provider = [kind |-> "provider",
                                 builderConfig |-> builder.config,
                                 handlers |-> builder.handlers],
                   !.atBuild = builder.calls]
  /\ UNCHANGED <<heap, inflight, unitCall, paywallCall, deployment,
                 compiledRoutes, request, pc, routeConfig, paymentPayload,
                 requirements, paymentRequired, matching, result,
                 builderCalls, verifyCalls, verifyAnswers, settleCalls,
                 settleAnswers, settlementArgs, settlement, nextCalls,
                 handler, res, delivered, warnings, fault, trace>>

\* provider.generateHtml(paymentRequired, runtimeConfig) is called; the run
\* follows the builder up to this call.
GenerateHtml ==
  /\ builder.provider # NoProvider
  /\ ~builder.call.made
  /\ \E accepts \in BuilderAccepts, runtimeConfig \in PaywallConfigs :
       builder' = [builder EXCEPT
                     !.call = [made |-> TRUE, accepts |-> accepts,
                               runtimeConfig |-> runtimeConfig,
                               out |-> generateHtml(
                                         builder.provider.builderConfig,
                                         builder.arrays[builder.provider.handlers],
                                         accepts, runtimeConfig)]]
  /\ UNCHANGED <<heap, inflight, unitCall, paywallCall, deployment,
                 compiledRoutes, request, pc, routeConfig, paymentPayload,
                 requirements, paymentRequired, matching, result,
                 builderCalls, verifyCalls, verifyAnswers, settleCalls,
                 settleAnswers, settlementArgs, settlement, nextCalls,
                 handler, res, delivered, warnings, fault, trace>>

NextBuilder ==
  \/ WithConfig
  \/ WithNetwork
  \/ Build
  \/ GenerateHtml

SpecBuilder == InitBuilder /\ [][NextBuilder]_vars

\* ---------------------------------------------- supports called directly

\* Networks of the requirements handed to supports.
SupportsNetworks ==
  {"eip155:8453", "eip155:1", "eip155", "base", "base-sepolia", "polygon",
   "solana:devnet", "solana:5eykt", "solana", "solana-devnet",
   "solana-testnet", "near:testnet"}

\* Argument lists of a supports call: the requirement alone, or a protocol
\* version and the requirement.
SupportsArgs ==
  LET reqs == {[scheme |-> "exact", network |-> n, amount |-> "100000"] :
                 n \in SupportsNetworks}
  IN  {<<RequirementArg(r)>> : r \in reqs}
        \cup {<<NumberArg(v), RequirementArg(r)>> : v \in {1, 2, 3}, r \in reqs}

\* A handler's supports is about to be called.
InitSupports ==
  /\ Fresh
  /\ heap = <<>>
  /\ inflight = <<>>
  /\ builder = NoBuilder
  /\ paywallCall = NoPaywallCall
  /\ deployment = BareDeployment
  /\ compiledRoutes = CompileRoutes(normalizedRoutes(deployment.routes))
  /\ request = [path |-> <<Slash, "a">>, method |-> "GET",
                signature |-> AbsentHeader, legacy |-> AbsentHeader,
                accept |-> <<"text/html", ",", "*/*">>,
                userAgent |-> <<"Mozilla", "/5.0">>]
  /\ settlementArgs = NoArgs
  /\ pc = "call"
  /\ unitCall \in [fn : {"supports"}, handler : PaywallHandlers,
                   args : SupportsArgs, out : {NoBody}]

\* handler.supports(...args) runs: it answers or throws.
SupportsCalled ==
  /\ pc = "call"
  /\ unitCall.fn = "supports"
  /\ unitCall' = [unitCall EXCEPT !.out = supports(unitCall.handler,
                                                   unitCall.args)]
  /\ pc' = "returned"
  /\ UNCHANGED <<heap, inflight, builder, paywallCall, deployment,
                 compiledRoutes, request, routeConfig, paymentPayload,
                 requirements, paymentRequired, matching, result,
                 builderCalls, verifyCalls, verifyAnswers, settleCalls,
                 settleAnswers, settlementArgs, settlement, nextCalls,
                 handler, res, delivered, warnings, fault, trace>>

NextSupports ==
  \/ SupportsCalled

SpecSupports == InitSupports /\ [][NextSupports]_vars

\* ------------------------------------------------------- display amounts
\* getDisplayAmount of the service and of PaywallBuilder, called directly.
\* Amount strings are sequences of digits; a number is a fraction num / den.

\* A property a requirement object does not have.
Absent == <<>>

\* Requirement objects by their amount properties: version 2 carries amount,
\* version 1 maxAmountRequired, and an object spread from one into the other
\* carries both.
AmountShapes ==
  [amount : {Absent, <<"1", "0", "0", "0", "0", "0">>, <<"5", "0", "0", "0", "0">>},
   maxAmountRequired : {Absent, <<"5", "0", "0", "0", "0">>}]

\* PaymentRequired objects handed to getDisplayAmount.
AmountInputs ==
  [x402Version : {1, 2},
   accepts : UNION {[1..n -> AmountShapes] : n \in 0..MaxAccepts}]

DigitValue(d) ==
  CASE d = "0" -> 0 [] d = "1" -> 1 [] d = "2" -> 2 [] d = "3" -> 3
    [] d = "4" -> 4 [] d = "5" -> 5 [] d = "6" -> 6 [] d = "7" -> 7
    [] d = "8" -> 8 [] d = "9" -> 9

\* parseFloat on a string of decimal digits.
RECURSIVE parseFloat(_)
parseFloat(s) ==
  IF s = <<>> THEN 0
  ELSE 10 * parseFloat(SubSeq(s, 1, Len(s) - 1)) + DigitValue(s[Len(s)])

\* parseFloat(x) / 1000000
perMillion(s) == [num |-> parseFloat(s), den |-> 1000000]

Zero == [num |-> 0, den |-> 1]

\* x402HTTPResourceService.getDisplayAmount: only the amount property is
\* looked at.
serviceGetDisplayAmount(pr) ==
  IF Len(pr.accepts) > 0
  THEN LET firstReq == pr.accepts[1] IN
       IF firstReq.amount # Absent THEN perMillion(firstReq.amount)
       ELSE Zero
  ELSE Zero

\* PaywallBuilder.getDisplayAmount: amount if the requirement has one, else
\* maxAmountRequired.
builderGetDisplayAmount(pr) ==
  IF Len(pr.accepts) > 0
  THEN LET firstReq == pr.accepts[1] IN
       IF firstReq.amount # Absent THEN perMillion(firstReq.amount)
       ELSE IF firstReq.maxAmountRequired # Absent
       THEN perMillion(firstReq.maxAmountRequired)
       ELSE Zero
  ELSE Zero

\* getDisplayAmount is about to be called, on the service or on the builder.
InitAmount ==
  /\ Fresh
  /\ heap = <<>>
  /\ inflight = <<>>
  /\ builder = NoBuilder
  /\ paywallCall = NoPaywallCall
  /\ deployment = BareDeployment
  /\ compiledRoutes = CompileRoutes(normalizedRoutes(deployment.routes))
  /\ request = [path |-> <<Slash, "a">>, method |-> "GET",
                signature |-> AbsentHeader, legacy |-> AbsentHeader,
                accept |-> <<"text/html", ",", "*/*">>,
                userAgent |-> <<"Mozilla", "/5.0">>]
  /\ settlementArgs = NoArgs
  /\ pc = "call"
  /\ unitCall \in [fn : {"getDisplayAmount"}, by : {"service", "builder"},
                   paymentRequired : AmountInputs, out : {NoBody}]

\* generatePaywallHTML computes the amount it hands to the page.
ServiceDisplayAmount ==
  /\ pc = "call"
  /\ unitCall.fn = "getDisplayAmount"
  /\ unitCall.by = "service"
  /\ unitCall' = [unitCall EXCEPT
                    !.out = serviceGetDisplayAmount(unitCall.paymentRequired)]
  /\ pc' = "returned"
  /\ UNCHANGED <<heap, inflight, builder, paywallCall, deployment,
                 compiledRoutes, request, routeConfig, paymentPayload,
                 requirements, paymentRequired, matching, result,
                 builderCalls, verifyCalls, verifyAnswers, settleCalls,
                 settleAnswers, settlementArgs, settlement, nextCalls,
                 handler, res, delivered, warnings, fault, trace>>

\* The provider's generateHtml computes the amount for getPaywallHtml.
BuilderDisplayAmount ==
  /\ pc = "call"
  /\ unitCall.fn = "getDisplayAmount"
  /\ unitCall.by = "builder"
  /\ unitCall' = [unitCall EXCEPT
                    !.out = builderGetDisplayAmount(unitCall.paymentRequired)]
  /\ pc' = "returned"
  /\ UNCHANGED <<heap, inflight, builder, paywallCall, deployment,
                 compiledRoutes, request, routeConfig, paymentPayload,
                 requirements, paymentRequired, matching, result,
                 builderCalls, verifyCalls, verifyAnswers, settleCalls,
                 settleAnswers, settlementArgs, settlement, nextCalls,
                 handler, res, delivered, warnings, fault, trace>>

NextAmount ==
  \/ ServiceDisplayAmount
  \/ BuilderDisplayAmount

SpecAmount == InitAmount /\ [][NextAmount]_vars

\* ================================================================== claims

\* The request's normalized path and method match some compiled route.
ProtectedRequest ==
  \E i \in DOMAIN compiledRoutes :
    RouteMatches(compiledRoutes[i], normalizePath(request.path),
                 toUpperCase(request.method))

\* Position of the first occurrence of an event in the trace, 0 if absent.
Pos(ev) ==
  IF \E i \in DOMAIN trace : trace[i] = ev
  THEN CHOOSE i \in DOMAIN trace :
         trace[i] = ev /\ \A j \in DOMAIN trace : trace[j] = ev => i <= j
  ELSE 0

SameSchemeAndNetwork(requirement, payload) ==
  /\ requirement.scheme = payload.scheme
  /\ requirement.network = payload.network

\* The PaymentRequired a machine-readable 402 carries in PAYMENT-REQUIRED.
decodePaymentRequiredHeader(h) == h.json

\* C1: for a protected request, next() is called only after verifyPayment
\* returned isValid = true for the request's own payload against a built
\* requirement of the same scheme and network, and a payment-error result
\* never calls next().
C1_ForwardOnlyAfterValidVerification ==
  /\ (ProtectedRequest /\ nextCalls > 0) =>
       /\ Len(verifyCalls) = 1
       /\ Len(verifyAnswers) = 1
       /\ verifyAnswers[1].kind = "return"
       /\ verifyAnswers[1].isValid
       /\ verifyCalls[1].payload = decodePaymentSignatureHeader(request.signature).value
       /\ verifyCalls[1].requirements \in Range(requirements)
       /\ SameSchemeAndNetwork(verifyCalls[1].requirements, verifyCalls[1].payload)
       /\ 0 < Pos("valid")
       /\ Pos("valid") < Pos("next")
  /\ (result.type = "payment-error" => nextCalls = 0)

C1_Witness ==
  /\ ProtectedRequest
  /\ nextCalls = 1
  /\ handler.state = "done"
  /\ result.type = "payment-verified"

\* C2: the settlement collaborator is called only once the protected handler
\* has finished its response, and only if the status the handler gave that
\* response is below 400.
C2_SettleOnlyAfterSuccessfulResponse ==
  settleCalls # <<>> => (handler.state = "done" /\ handler.status < 400)

\* C3: processSettlement with a status of 400 or more returns null and never
\* calls settlePayment.
C3_FailedStatusNeverSettles ==
  settlementArgs.status >= 400 =>
    /\ settleCalls = <<>>
    /\ pc = "returned" => settlement = [kind |-> "null"]

C3_Witness ==
  /\ pc = "returned"
  /\ settlementArgs.status = 400
  /\ settlement.kind = "null"

C5_VerifiedMeansFirstMatchValid ==
  result.type = "payment-verified" =>
    /\ Len(verifyCalls) = 1
    /\ Len(verifyAnswers) = 1
    /\ verifyAnswers[1].kind = "return"
    /\ verifyAnswers[1].isValid
    /\ verifyCalls[1] = [payload |-> result.paymentPayload,
                         requirements |-> result.paymentRequirements]
    /\ result.paymentPayload = decodePaymentSignatureHeader(request.signature).value
    /\ \E i \in DOMAIN paymentRequired.accepts :
         /\ paymentRequired.accepts[i] = result.paymentRequirements
         /\ SameSchemeAndNetwork(paymentRequired.accepts[i], result.paymentPayload)
         /\ \A j \in 1..(i - 1) :
              ~SameSchemeAndNetwork(paymentRequired.accepts[j], result.paymentPayload)

C5_Witness ==
  /\ result.type = "payment-verified"
  /\ Len(paymentRequired.accepts) = 2
  /\ SameSchemeAndNetwork(paymentRequired.accepts[1], result.paymentPayload)
  /\ SameSchemeAndNetwork(paymentRequired.accepts[2], result.paymentPayload)
  /\ paymentRequired.accepts[1] # paymentRequired.accepts[2]

\* C6: a request matching no compiled route gets no-payment-required whatever
\* its headers, and neither buildPaymentRequirements nor verifyPayment runs.
C6_UnmatchedIsUnprotected ==
  (~ProtectedRequest /\ pc # "receive") =>
    /\ result = [type |-> "no-payment-required"]
    /\ builderCalls = 0
    /\ verifyCalls = <<>>
    /\ fault = None

C6_Witness ==
  /\ ~ProtectedRequest
  /\ pc = "done"
  /\ request.signature.kind = "base64"
  /\ request.signature.json \in Payloads
  /\ request.legacy # AbsentHeader

\* C7: a protected request with no payment header gets payment-error with
\* status 402 and a PaymentRequired whose error is "Payment required";
\* verifyPayment is not called.
C7_NoHeaderIsPaymentRequired ==
  (ProtectedRequest /\ request.signature = AbsentHeader
     /\ request.legacy = AbsentHeader /\ pc \notin {"receive", "awaitBuild"}) =>
    /\ fault = None
    /\ result.type = "payment-error"
    /\ result.response.status = 402
    /\ paymentRequired.error = "Payment required"
    /\ ~result.response.isHtml =>
         decodePaymentRequiredHeader(result.response.paymentRequired) = paymentRequired
    /\ verifyCalls = <<>>

C7_Witness ==
  /\ ProtectedRequest
  /\ request.signature = AbsentHeader
  /\ request.legacy = AbsentHeader
  /\ pc = "done"
  /\ delivered.kind = "response"
  /\ delivered.status = 402

\* The payment-signature header is present and does not decode.
UndecodableHeader ==
  /\ request.signature.kind \notin {"absent", "empty"}
  /\ ~decodePaymentSignatureHeader(request.signature).ok

\* C8: a protected request whose payment header does not decode is answered
\* as one with no header: no exception, no verifyPayment call, and the
\* payment-error the no-payment branch builds with "Payment required".
C8_UndecodableHeaderIsNoPayment ==
  (ProtectedRequest /\ UndecodableHeader /\ pc # "receive") =>
    /\ fault = None
    /\ paymentPayload = NoPayload
    /\ verifyCalls = <<>>
    /\ pc # "awaitBuild" =>
         /\ paymentRequired.error = "Payment required"
         /\ result = noPaymentResult(
              createPaymentRequiredResponse(requirements, resourceInfo,
                                            "Payment required"),
              isWebBrowser(request.accept, request.userAgent),
              routeConfig.customPaywallHtml)

C8_Witness ==
  /\ ProtectedRequest
  /\ UndecodableHeader
  /\ pc = "done"
  /\ warnings = 1
  /\ delivered.status = 402

\* No entry of accepts has both the scheme and the network of the payload.
NothingMatches ==
  \A i \in DOMAIN requirements :
    ~SameSchemeAndNetwork(requirements[i], paymentPayload)

\* C9: with a payload present and no entry of accepts of its scheme and
\* network, the result is payment-error, status 402, reason "No matching
\* payment requirements", and verifyPayment is not called.
C9_NoMatchIsRejected ==
  (paymentPayload # NoPayload /\ NothingMatches
     /\ pc \notin {"receive", "awaitBuild"}) =>
    /\ result.type = "payment-error"
    /\ result.response.status = 402
    /\ decodePaymentRequiredHeader(result.response.paymentRequired).error
         = "No matching payment requirements"
    /\ verifyCalls = <<>>

C9_Witness ==
  /\ paymentPayload # NoPayload
  /\ NothingMatches
  /\ pc = "done"
  /\ \E i \in DOMAIN requirements : requirements[i].scheme = paymentPayload.scheme
  /\ \E i \in DOMAIN requirements : requirements[i].network = paymentPayload.network

\* C10: when verifyPayment returns isValid = false with an invalidReason, the
\* result is payment-error and its PaymentRequired carries that reason.
C10_InvalidReasonIsSurfaced ==
  (verifyAnswers # <<>> /\ verifyAnswers[1].kind = "return"
     /\ ~verifyAnswers[1].isValid
     /\ verifyAnswers[1].invalidReason # Undefined) =>
    /\ result.type = "payment-error"
    /\ decodePaymentRequiredHeader(result.response.paymentRequired).error
         = verifyAnswers[1].invalidReason
    /\ decodePaymentRequiredHeader(result.response.paymentRequired).accepts
         = requirements

C10_Witness ==
  /\ pc = "done"
  /\ verifyAnswers # <<>>
  /\ verifyAnswers[1].kind = "return"
  /\ verifyAnswers[1].invalidReason = "expired"
  /\ delivered.status = 402


\* C11: when verifyPayment throws, processHTTPRequest still returns: a
\* payment-error with status 402, built like the one for an invalid result,
\* whose error is the thrown Error's message (a fixed message when what was
\* thrown is no Error); next() is not called.
C11_VerificationFailureIsRejection ==
  (verifyAnswers # <<>> /\ verifyAnswers[1].kind = "throw") =>
    /\ fault = None
    /\ result.type = "payment-error"
    /\ result.response.status = 402
    /\ ~result.response.isHtml
    /\ decodePaymentRequiredHeader(result.response.paymentRequired).error
         = (IF verifyAnswers[1].isError THEN verifyAnswers[1].message
            ELSE "Payment verification failed")
    /\ result = verifyResultOutcome(
         [kind |-> "return", isValid |-> FALSE,
          invalidReason |->
            decodePaymentRequiredHeader(result.response.paymentRequired).error],
         paymentPayload, matching, requirements, resourceInfo)
    /\ nextCalls = 0
    /\ handler.state = "idle"

C11_Witness ==
  /\ pc = "done"
  /\ verifyAnswers # <<>>
  /\ verifyAnswers[1].kind = "throw"
  /\ verifyAnswers[1].isError
  /\ delivered.kind = "response"
  /\ delivered.status = 402


\* C12: when verifyPayment rejects or throws without a reason string, the
\* error of the payment-error is a generic message, never absent or empty.
C12_MissingReasonGetsDefault ==
  (verifyAnswers # <<>>
     /\ \/ /\ verifyAnswers[1].kind = "return"
           /\ ~verifyAnswers[1].isValid
           /\ verifyAnswers[1].invalidReason = Undefined
        \/ /\ verifyAnswers[1].kind = "throw"
           /\ verifyAnswers[1].message = Undefined) =>
    /\ result.type = "payment-error"
    /\ decodePaymentRequiredHeader(result.response.paymentRequired).error
         \notin {Undefined, ""}


\* C13: every payment-error result of processHTTPRequest, whichever branch
\* built it and whether it is HTML or JSON, has response status 402, and the
\* middleware answers with that status.
C13_PaymentErrorIs402 ==
  result.type = "payment-error" =>
    /\ result.response.status = 402
    /\ pc = "done" => (delivered.kind = "response" /\ delivered.status = 402)

C13_Witness ==
  /\ pc = "done"
  /\ result.type = "payment-error"
  /\ result.response.isHtml
  /\ delivered.contentType = "text/html"


\* C14: whatever the header decoder, the requirement builder and the
\* verifier do, processHTTPRequest ends with one of its three results and no
\* exception leaves it or the middleware.
C14_AlwaysOneOfThreeResults ==
  pc \in {"dispatch", "awaitNext", "awaitSettle", "done"} =>
    /\ fault = None
    /\ result.type \in {"no-payment-required", "payment-error", "payment-verified"}


\* C15: when settlePayment throws for a status below 400, processSettlement
\* throws to its caller; it returns neither headers nor null.
C15_SettlementFailurePropagates ==
  (settleAnswers # <<>> /\ settleAnswers[1].kind = "throw") =>
    /\ settlementArgs.status < 400
    /\ pc = "returned"
    /\ settlement.kind = "throw"
    /\ settlement.kind \notin {"headers", "null"}

C15_Witness ==
  /\ pc = "returned"
  /\ settlementArgs.status = 200
  /\ Len(settleCalls) = 1
  /\ settleAnswers = <<[kind |-> "throw", success |-> FALSE, transaction |-> ""]>>
  /\ settlement.kind = "throw"


\* C16: when processSettlement throws in the middleware and the headers have
\* not gone out, the client receives a 402 with the settlement-failed body
\* and nothing of the handler's answer; when the headers have gone out, the
\* response the handler began is completed unchanged. Either way nothing
\* the handler does later alters what the client received.
C16_SettlementFailurePolicy ==
  [][ /\ (pc = "awaitSettle" /\ pc' = "done" /\ settlement'.kind = "throw") =>
           IF res.headersSent
           THEN /\ delivered' = [delivered EXCEPT !.kind = "response",
                                                  !.body = [kind |-> "handler"]]
                /\ delivered'.status = handler.status
                /\ delivered'.status # 402
           ELSE /\ delivered'.kind = "response"
                /\ delivered'.status = 402
                /\ delivered'.body = [kind |-> "settlement-failed"]
                /\ delivered'.paymentResponse = NoHeader
      /\ (pc = "done" /\ settlement.kind = "throw") => delivered' = delivered
    ]_vars

C16_Witness ==
  /\ pc = "done"
  /\ result.type = "payment-verified"
  /\ settlement.kind = "throw"
  /\ handler = [state |-> "done", status |-> 200]
  /\ Pos("handled") < Pos("settle-failed")
  /\ delivered.kind = "response"
  /\ delivered.status = 402
  /\ delivered.body = [kind |-> "settlement-failed"]


\* C17: a payment-verified request whose handler answered with a status
\* below 400 and whose settlement succeeded has had processSettlement call
\* settlePayment exactly once, and the delivered response carries the
\* PAYMENT-RESPONSE header with the encoded settlement result.
C17_SettledResponseCarriesReceipt ==
  ( /\ pc = "done"
    /\ result.type = "payment-verified"
    /\ handler.state = "done"
    /\ handler.status < 400
    /\ settleAnswers # <<>>
    /\ settleAnswers[1].kind = "return"
    /\ settleAnswers[1].success ) =>
    /\ Len(settleCalls) = 1
    /\ delivered.kind = "response"
    /\ delivered.status = handler.status
    /\ delivered.paymentResponse =
         encodePaymentResponseHeader(
           [success |-> TRUE, transaction |-> settleAnswers[1].transaction])

\* C18: processSettlement returns the PAYMENT-RESPONSE header only when the
\* settle result it received has success = TRUE.
C18_ReceiptOnlyOnSuccess ==
  (pc = "returned" /\ settlement.kind = "headers") =>
    /\ settleAnswers # <<>>
    /\ settleAnswers[1].kind = "return"
    /\ settleAnswers[1].success


\* C19: when the transport aborts a payment-verified request before the
\* protected handler has completed, settlePayment is not called afterwards.
C19_AbortedRequestNeverSettles ==
  ( /\ result.type = "payment-verified"
    /\ Pos("aborted") > 0
    /\ (Pos("handled") = 0 \/ Pos("aborted") < Pos("handled")) ) =>
    ~(Pos("settle") > Pos("aborted"))

\* C20: a protected request that carries a payload only in x-payment is
\* processed as the same payload in payment-signature would be: the payload
\* is extracted and, when a requirement matches it, handed to verifyPayment.
C20_LegacyHeaderIsExtracted ==
  ( /\ ProtectedRequest
    /\ request.signature = AbsentHeader
    /\ request.legacy # AbsentHeader
    /\ pc \in {"dispatch", "awaitNext", "awaitSettle", "done"} ) =>
    /\ paymentPayload = decodePaymentSignatureHeader(request.legacy).value
    /\ (findMatchingRequirements(requirements, paymentPayload) # NoRequirement
          => Len(verifyCalls) = 1)


\* C21: the 402 for a protected request without a payload is the paywall
\* page with Content-Type text/html exactly when Accept contains text/html
\* and User-Agent contains Mozilla; otherwise it is application/json with a
\* PAYMENT-REQUIRED header and is not HTML.
C21_BrowserGetsPaywallElseJson ==
  ( /\ ProtectedRequest
    /\ paymentPayload = NoPayload
    /\ pc \in {"dispatch", "done"}
    /\ fault = None ) =>
    LET browser == /\ \E i \in DOMAIN request.accept :
                        request.accept[i] = "text/html"
                   /\ \E i \in DOMAIN request.userAgent :
                        request.userAgent[i] = "Mozilla"
        response == result.response
    IN  /\ result.type = "payment-error"
        /\ response.isHtml = browser
        /\ IF browser
           THEN /\ response.contentType = "text/html"
                /\ response.body.kind = "html"
                /\ pc = "done" => /\ delivered.contentType = "text/html"
                                  /\ delivered.body.kind = "html"
           ELSE /\ response.contentType = "application/json"
                /\ response.paymentRequired =
                     encodePaymentRequiredHeader(paymentRequired)
                /\ response.body = NoBody
                /\ pc = "done" =>
                     /\ delivered.contentType = "application/json"
                     /\ delivered.paymentRequired =
                          encodePaymentRequiredHeader(paymentRequired)
                     /\ delivered.body.kind # "html"

C21_Witness ==
  /\ pc = "done"
  /\ ProtectedRequest
  /\ paymentPayload = NoPayload
  /\ includes(request.accept, "text/html")
  /\ ~includes(request.userAgent, "Mozilla")
  /\ delivered.status = 402
  /\ delivered.contentType = "application/json"
  /\ delivered.paymentRequired # NoHeader


\* C22: the JSON body of a 402 sent for a payment-error that is not a
\* paywall page holds the PaymentRequired data: the accepts list as the
\* requirement builder ordered it and the error reason.
C22_JsonBodyCarriesPaymentRequired ==
  ( /\ pc = "done"
    /\ result.type = "payment-error"
    /\ ~result.response.isHtml ) =>
    /\ delivered.kind = "response"
    /\ delivered.body =
         [kind |-> "json",
          data |-> [accepts |-> requirements,
                    error |-> decodePaymentRequiredHeader(
                                result.response.paymentRequired).error]]


\* C23: the paywall page for a browser without a payload is the route's
\* customPaywallHtml when set; otherwise the page of the renderer the
\* integrator supplied (the provider handed to paymentMiddleware, or failing
\* that the installed paywall package); otherwise the inline fallback page
\* holding the serialized PaymentRequired.
C23_PaywallPrecedence ==
  ( /\ pc \in {"dispatch", "done"}
    /\ result.type = "payment-error"
    /\ result.response.isHtml ) =>
    LET body == result.response.body IN
      IF routeConfig.customPaywallHtml # None
      THEN body = [kind |-> "html", source |-> "custom",
                   data |-> [html |-> routeConfig.customPaywallHtml]]
      ELSE IF deployment.paywall # NoProvider
      THEN body.source = "provider"
      ELSE IF deployment.paywallPackage
      THEN body.source = "getPaywallHtml"
      ELSE body = [kind |-> "html", source |-> "fallback",
                   data |-> paymentRequired]


\* The networks each handler is written for: the test its supports makes
\* when it is handed the requirement.
HandlesNetwork(h, requirement) ==
  IF h = "evmPaywall"
  THEN \/ startsWith(requirement.network, "eip155:")
       \/ requirement.network \in EVM_NETWORKS
  ELSE \/ startsWith(requirement.network, "solana:")
       \/ requirement.network \in {"solana", "solana-devnet"}

\* Positions in accepts of the requirements some registered handler is for.
SupportedPositions ==
  {i \in DOMAIN paywallCall.accepts :
     \E j \in DOMAIN paywallCall.handlers :
       HandlesNetwork(paywallCall.handlers[j], paywallCall.accepts[i])}

\* C24: generateHtml renders with the first handler, in registration order,
\* that supports the first requirement of accepts any handler supports,
\* hands it that requirement, and stops there; with accepts = [solana, evm]
\* and handlers [evm, solana] the page is the solana handler's.
C24_FirstMatchRenders ==
  (pc = "returned" /\ SupportedPositions # {}) =>
    LET i == CHOOSE k \in SupportedPositions :
               \A m \in SupportedPositions : k <= m
        js == {j \in DOMAIN paywallCall.handlers :
                 HandlesNetwork(paywallCall.handlers[j], paywallCall.accepts[i])}
        j == CHOOSE k \in js : \A m \in js : k <= m
    IN  /\ fault = None
        /\ paywallCall.html =
             handlerGenerateHtml(paywallCall.handlers[j], paywallCall.accepts[i])


\* C25: when no registered handler supports any requirement of accepts (no
\* handler registered and an empty accepts included), generateHtml returns
\* the default page over the whole accepts list and calls no handler's
\* generateHtml.
C25_NoMatchFallsBackToDefault ==
  (pc = "returned" /\ SupportedPositions = {}) =>
    /\ fault = None
    /\ paywallCall.html = getPaywallHtml(paywallCall.accepts)
    /\ paywallCall.html.source \notin PaywallHandlers


\* The table the constructor compiled, as configured.
ConfiguredRoutes == normalizedRoutes(deployment.routes)

\* A lookup has been made on the constructed service.
LookedUp == pc = "ready" /\ "lookup" \in Range(trace)

\* Entries of the configured table that fit the request last looked up:
\* verb "*" or the method in upper case, pattern matching the normalized path.
FittingRoutes ==
  {i \in DOMAIN ConfiguredRoutes :
     LET parsed == parseRoutePattern(ConfiguredRoutes[i].pattern) IN
       /\ parsed.verb \in {"*", toUpperCase(request.method)}
       /\ RegexTest(parsed.regex, normalizePath(request.path))}

\* C26: a lookup returns the config of the first entry, in configuration
\* order, whose verb is "*" or the request method without regard to case and
\* whose pattern matches the normalized path; with no such entry the
\* resource is unprotected.
C26_FirstMatchingRouteWins ==
  LookedUp =>
    IF FittingRoutes = {}
    THEN routeConfig = NoRoute
    ELSE routeConfig =
           ConfiguredRoutes[CHOOSE i \in FittingRoutes :
                              \A j \in FittingRoutes : i <= j].config

C26_Witness ==
  /\ LookedUp
  /\ Cardinality(FittingRoutes) = 2
  /\ request.method = "post"
  /\ routeConfig = ConfiguredRoutes[1].config
  /\ routeConfig # ConfiguredRoutes[3].config


\* The path with every "a" and every slash but the first percent-encoded.
PercentEncoded(p) ==
  [i \in DOMAIN p |->
     IF p[i] = "a" THEN "%61"
     ELSE IF p[i] = "/" /\ i > 1 THEN "%2F"
     ELSE p[i]]

\* The path with backslashes for slashes.
Backslashed(p) == [i \in DOMAIN p |-> IF p[i] = "/" THEN "\\" ELSE p[i]]

\* The path with every slash written twice.
RECURSIVE SlashesDoubled(_)
SlashesDoubled(p) ==
  IF p = <<>> THEN <<>>
  ELSE (IF Head(p) = "/" THEN <<"/", "/">> ELSE <<Head(p)>>)
         \o SlashesDoubled(Tail(p))

\* Spellings of a path that normalization is to treat as the path itself.
Spellings(p) ==
  { p \o <<"?", "x">>, p \o <<"#", "x">>, PercentEncoded(p), Backslashed(p),
    SlashesDoubled(p), p \o <<"/">> }

\* C27: a path that differs from a protected path only by a query string or
\* fragment, percent-encoding, backslashes for slashes, repeated slashes or
\* one trailing slash resolves to the route config of the protected path.
C27_LookupIgnoresSpelling ==
  (LookedUp /\ routeConfig # NoRoute) =>
    \A spelled \in Spellings(request.path) :
      getRouteConfig(compiledRoutes, spelled, request.method) = routeConfig


\* C28: with a single un-keyed RouteConfig as route table, every path and
\* every method resolves to that config.
C28_SingleConfigProtectsEverything ==
  (LookedUp /\ ~deployment.routes.keyed) =>
    routeConfig = deployment.routes.config


\* The path part of a route pattern, after the verb if there is one.
PatternPath(pattern) ==
  IF \E i \in DOMAIN pattern : pattern[i] = " "
  THEN SplitBlanks(pattern, <<>>, <<>>)[2]
  ELSE pattern

\* The pattern grammar: "*" stands for any run of characters, "[name]" for
\* one non-empty run without a slash, any other character for itself
\* without regard to case; the whole path has to be consumed.
RECURSIVE GrammarMatch(_, _)
GrammarMatch(p, s) ==
  IF p = <<>> THEN s = <<>>
  ELSE IF Head(p) = "*"
  THEN \E k \in 0..Len(s) : GrammarMatch(Tail(p), SubSeq(s, k + 1, Len(s)))
  ELSE IF Head(p) = "[" /\ IndexOfClose(p, 2) > 2
  THEN \E k \in 1..Len(s) :
         /\ \A j \in 1..k : s[j] # "/"
         /\ GrammarMatch(SubSeq(p, IndexOfClose(p, 2) + 1, Len(p)),
                         SubSeq(s, k + 1, Len(s)))
  ELSE /\ s # <<>>
       /\ FoldCase(Head(s)) = FoldCase(Head(p))
       /\ GrammarMatch(Tail(p), Tail(s))

\* C29: every pattern compiles, and a compiled pattern matches a path
\* exactly when the grammar does: "*" any run of characters, "[name]" one
\* non-empty segment without a slash, every other character, those special
\* in a RegExp included, only itself, anchored to the whole path.
C29_CompiledPatternFollowsGrammar ==
  /\ pc \in {"ready", "done"} => fault = None
  /\ LookedUp =>
       \A i \in DOMAIN ConfiguredRoutes :
         RegexTest(parseRoutePattern(ConfiguredRoutes[i].pattern).regex,
                   normalizePath(request.path))
           = GrammarMatch(PatternPath(ConfiguredRoutes[i].pattern),
                          normalizePath(request.path))


\* C30: however often the service was constructed from a route table and
\* whatever was looked up before, the compiled list is that of one
\* construction and a lookup returns what a newly constructed service returns
\* for the same path and method.
C30_ConstructionAndLookupKeepNoState ==
  pc = "ready" =>
    /\ compiledRoutes = CompileRoutes(ConfiguredRoutes)
    /\ "lookup" \in Range(trace) =>
         routeConfig = getRouteConfig(CompileRoutes(ConfiguredRoutes),
                                      request.path, request.method)

C30_Witness ==
  /\ pc = "ready"
  /\ trace = <<"construct", "lookup", "construct", "lookup">>
  /\ Len(ConfiguredRoutes) = 3
  /\ routeConfig # NoRoute


\* The accepts list a payment-error hands to the client: in the
\* PAYMENT-REQUIRED header, or in the data of the generated page (a route's
\* custom page carries none).
ErrorAccepts ==
  IF ~result.response.isHtml
  THEN decodePaymentRequiredHeader(result.response.paymentRequired).accepts
  ELSE IF result.response.body.source = "fallback"
  THEN result.response.body.data.accepts
  ELSE IF result.response.body.source = "getPaywallHtml"
  THEN result.response.body.data.paymentRequirements
  ELSE <<>>

\* C31: every requirement in the accepts of a payment-error, and the
\* requirement returned in payment-verified, carries extra.resourceUrl equal
\* to the URL the adapter reports for the request being processed.
C31_RequirementsCarryResourceUrl ==
  /\ result.type = "payment-error" =>
       \A i \in DOMAIN ErrorAccepts :
         ErrorAccepts[i].extra.resourceUrl = getUrl(request.path)
  /\ result.type = "payment-verified" =>
       result.paymentRequirements.extra.resourceUrl = getUrl(request.path)

C31_Witness ==
  /\ result.type = "payment-error"
  /\ Len(ErrorAccepts) = 2
  /\ paymentPayload # NoPayload
  /\ Len(verifyAnswers) = 1
  /\ ErrorAccepts[2].extra.resourceUrl = <<"http://host", Slash, "p", Slash, "x", Slash, "b">>


\* The compiled routes of the service as constructed.
CompiledAtStart == CompileRoutes(normalizedRoutes(KeyedRoutes(RoutesConfig)))

\* The route each concurrent request resolves to on that service.
RouteAtStart ==
  [i \in 1..MaxRequests |-> getRouteConfig(CompiledAtStart, ConcurrentPath(i), "GET")]

\* What the caller of processHTTPRequest finds in the result of call r: a
\* payment-verified result refers to a requirement object, read when looked at.
Observed(r) ==
  LET f == inflight[r] IN
  IF f.result.type = "payment-verified"
  THEN [f.result EXCEPT !.paymentRequirements = heap[f.matching].value]
  ELSE f.result

\* What processHTTPRequest returns for the request of call r when it is the
\* only call, given the same answers of the requirement builder and of
\* verifyPayment.
Alone(r) ==
  LET f      == inflight[r]
      config == RouteAtStart[r]
      info   == [url |-> getUrl(f.request.path)]
      pay    == extractPayment(f.request.signature).payload
      reqs   == attachResourceUrl(f.built, info.url)
      found  == findMatchingRequirements(reqs, pay)
  IN  IF config = NoRoute THEN [type |-> "no-payment-required"]
      ELSE IF pay = NoPayload
      THEN noPaymentResult(
             createPaymentRequiredResponse(reqs, info, initialError(pay)),
             isWebBrowser(f.request.accept, f.request.userAgent),
             config.customPaywallHtml)
      ELSE IF found = NoRequirement THEN noMatchResult(reqs, info)
      ELSE IF f.verify.kind = "throw"
      THEN verifyCatchOutcome(f.verify, reqs, info)
      ELSE verifyResultOutcome(f.verify, pay, found, reqs, info)

\* C32: while requests are processed together the route table and its
\* RouteConfigs stay as configured, and every finished request has the result
\* (variant, accepts, each extra.resourceUrl) it has when processed alone,
\* whatever ran during its awaits.
C32_RequestsDoNotInterfere ==
  /\ deployment = BareDeployment
  /\ compiledRoutes = CompiledAtStart
  /\ \A r \in DOMAIN inflight :
       inflight[r].pc = "done" => Observed(r) = Alone(r)

C32_Witness ==
  /\ inflight[1].pc = "done"
  /\ inflight[1].overlapped
  /\ inflight[1].requirements = <<1, 2>>
  /\ inflight[1].result.type = "payment-error"
  /\ inflight[1].verify.kind = "return"
  /\ inflight[2].pc = "done"
  /\ inflight[2].requirements = <<3>>
  /\ inflight[2].result.type = "payment-verified"


\* The withConfig arguments of the calls made before build(), in call order.
ConfigsBeforeBuild ==
  LET idx == {i \in DOMAIN builder.atBuild :
                builder.atBuild[i].fn = "withConfig"}
  IN  [i \in idx |-> builder.atBuild[i].arg]

\* Key by key: the runtime value if the runtime config has the key, else the
\* value of the last withConfig call before build() that has it.
KeywiseMerge ==
  LET runtime == builder.call.runtimeConfig
      setBy(k) == {i \in DOMAIN ConfigsBeforeBuild :
                     k \in DOMAIN ConfigsBeforeBuild[i]}
      keys == DOMAIN runtime \cup
              {k \in {"appName", "cdpClientKey"} : setBy(k) # {}}
  IN  [k \in keys |->
         IF k \in DOMAIN runtime THEN runtime[k]
         ELSE ConfigsBeforeBuild[CHOOSE i \in setBy(k) :
                                   \A j \in setBy(k) : j <= i][k]]

\* C33: the configuration generateHtml works with is the key-wise merge of
\* the withConfig calls in call order followed by the runtime config: runtime
\* beats builder, later withConfig beats earlier, single settings are kept.
C33_ConfigIsKeywiseMerge ==
  builder.call.made => builder.call.out.config = KeywiseMerge

C33_Witness ==
  /\ builder.call.made
  /\ Len(builder.atBuild) = 3
  /\ builder.atBuild[1] = [fn |-> "withConfig", arg |-> [k \in {"appName"} |-> "App 1"]]
  /\ builder.atBuild[2].fn = "withConfig"
  /\ "cdpClientKey" \in DOMAIN builder.atBuild[2].arg
  /\ builder.atBuild[3] = [fn |-> "withConfig", arg |-> [k \in {"appName"} |-> "App 2"]]
  /\ DOMAIN builder.call.runtimeConfig = {}
  /\ builder.call.out.config["appName"] = "App 2"
  /\ builder.call.out.config["cdpClientKey"] = "key-1"


\* The handlers registered by the withNetwork calls made before build().
HandlersBeforeBuild ==
  LET sel == SelectSeq(builder.atBuild, LAMBDA c : c.fn = "withNetwork")
  IN  [i \in DOMAIN sel |-> sel[i].arg]

\* The builder's config when build() was called.
RECURSIVE mergeAll(_)
mergeAll(configs) ==
  IF configs = <<>> THEN EmptyConfig
  ELSE spread(mergeAll(SubSeq(configs, 1, Len(configs) - 1)),
              configs[Len(configs)])

ConfigBeforeBuild ==
  LET sel == SelectSeq(builder.atBuild, LAMBDA c : c.fn = "withConfig")
  IN  mergeAll([i \in DOMAIN sel |-> sel[i].arg])

\* withConfig / withNetwork calls were made on the builder after build().
CalledAfterBuild(fn) ==
  \E i \in DOMAIN builder.calls :
    i > Len(builder.atBuild) /\ builder.calls[i].fn = fn

\* C39: a provider is a snapshot of the builder at build(): whatever
\* withConfig or withNetwork calls follow on the builder, generateHtml
\* selects and renders as it would have right after build().
C39_ProviderIsSnapshot ==
  (builder.call.made /\ builder.provider # NoProvider) =>
    builder.call.out =
      generateHtml(ConfigBeforeBuild, HandlersBeforeBuild,
                   builder.call.accepts, builder.call.runtimeConfig)


\* The network families as the claim lists them.
EvmFamily ==
  {"eip155:8453", "eip155:1"} \cup
  {"abstract", "abstract-testnet", "base-sepolia", "base", "avalanche-fuji",
   "avalanche", "iotex", "sei", "sei-testnet", "polygon", "polygon-amoy",
   "peaq"}

SvmFamily == {"solana:devnet", "solana:5eykt", "solana", "solana-devnet"}

\* supports was called with the requirement as its only argument.
CalledWithRequirement ==
  /\ pc = "returned"
  /\ unitCall.fn = "supports"
  /\ Len(unitCall.args) = 1

\* C34: called as supports(requirement), evmPaywall answers true exactly for
\* eip155:* and the legacy EVM names, svmPaywall exactly for solana:* and
\* solana / solana-devnet, and no network is supported by both.
C34_SupportsByFamily ==
  CalledWithRequirement =>
    LET network == unitCall.args[1].value.network IN
      /\ ~unitCall.out.threw
      /\ unitCall.handler = "evmPaywall" =>
           (unitCall.out.value <=> network \in EvmFamily)
      /\ unitCall.handler = "svmPaywall" =>
           (unitCall.out.value <=> network \in SvmFamily)
      /\ EvmFamily \cap SvmFamily = {}


\* The fraction out equals n / 1000000.
IsPerMillion(out, n) ==
  \/ out.num = 0 /\ n = 0
  \/ out.den = 1000000 /\ out.num = n

\* C35: the display amount is the first requirement's maxAmountRequired
\* over 10^6 for x402Version 1 (50000 gives 0.05), its amount over 10^6 for
\* version 2 (100000 gives 0.1), and 0 for an empty accepts.
C35_DisplayAmountByVersion ==
  (pc = "returned" /\ unitCall.fn = "getDisplayAmount") =>
    LET pr == unitCall.paymentRequired IN
      /\ Len(pr.accepts) = 0 => unitCall.out.num = 0
      /\ (/\ Len(pr.accepts) > 0
          /\ pr.x402Version = 1
          /\ pr.accepts[1].maxAmountRequired # Absent) =>
           IsPerMillion(unitCall.out, parseFloat(pr.accepts[1].maxAmountRequired))
      /\ (/\ Len(pr.accepts) > 0
          /\ pr.x402Version = 2
          /\ pr.accepts[1].amount # Absent) =>
           IsPerMillion(unitCall.out, parseFloat(pr.accepts[1].amount))


\* C36: for a payment-verified request whose handler answered with a status
\* below 400, the response is completed to the client only after the
\* settlement call has succeeded or failed.
C36_ResponseWaitsForSettlement ==
  (/\ result.type = "payment-verified"
   /\ handler.state = "done"
   /\ handler.status < 400
   /\ delivered.kind = "response") =>
    \/ Pos("settled") > 0
    \/ Pos("settle-failed") > 0

C36_Witness ==
  /\ result.type = "payment-verified"
  /\ handler = [state |-> "done", status |-> 200]
  /\ delivered.kind = "response"
  /\ delivered.body = [kind |-> "handler"]
  /\ Pos("handled") > 0
  /\ Pos("handled") < Pos("settle")
  /\ Pos("settled") > 0


\* The middleware has finished a payment-verified request.
VerifiedAndFinished == result.type = "payment-verified" /\ pc = "done"

\* C37: when the middleware has finished a payment-verified request, on
\* whichever path, res.end is the original again, a recorded end call has
\* been replayed exactly once, and the client then has one completed
\* response, carrying what was recorded.
C37_EndRestoredAndReplayedOnce ==
  VerifiedAndFinished =>
    /\ ~res.endPatched
    /\ res.replays = IF res.endArgs # NoBody THEN 1 ELSE 0
    /\ res.endArgs # NoBody =>
         /\ res.finished
         /\ delivered.kind = "response"
         /\ delivered.body = res.endArgs

C37_Witness ==
  /\ VerifiedAndFinished
  /\ Pos("settle-failed") > 0
  /\ res.replays = 1
  /\ delivered.kind = "response"
  /\ delivered.status = 402
  /\ delivered.body = [kind |-> "settlement-failed"]


\* C38: a payload that is present and rejected (no matching requirement,
\* invalid, or a failed verification) is answered with the machine-readable
\* 402 carrying a PAYMENT-REQUIRED header, never with paywall HTML, also when
\* the request comes from a browser.
C38_RejectedPayloadGetsJson ==
  (paymentPayload # NoPayload /\ result.type = "payment-error") =>
    /\ ~result.response.isHtml
    /\ result.response.status = 402
    /\ result.response.contentType = "application/json"
    /\ result.response.paymentRequired # NoHeader
    /\ pc = "done" =>
         /\ delivered.status = 402
         /\ delivered.contentType = "application/json"
         /\ delivered.paymentRequired = result.response.paymentRequired
         /\ delivered.body.kind # "html"

C38_Witness ==
  /\ isWebBrowser(request.accept, request.userAgent)
  /\ paymentPayload # NoPayload
  /\ result.type = "payment-error"
  /\ routeConfig.customPaywallHtml # None
  /\ Len(verifyAnswers) = 1
  /\ verifyAnswers[1].kind = "throw"
  /\ pc = "done"
  /\ delivered.contentType = "application/json"

====
